---- MODULE Spec2Model ----
(***************************************************************************)
(* Deployment orchestration core of shipyard-action: dependency            *)
(* resolution (pkg/deployment/dependencies.go), the deployment manager's   *)
(* Deploy and Rollback (pkg/deployment/manager.go), the proxy manager's    *)
(* container handling (pkg/proxy/manager.go) and main's driver (main.go).  *)
(***************************************************************************)
EXTENDS Naturals, Integers, Sequences, FiniteSets, TLC

\* ------------------------------------------------------------------ bounds

\* Longest dependsOn list given to the resolver on its own.
MaxDeps == 2

\* Longest dependsOn list of a configured unit.
MaxUnitDeps == 1

\* Largest retries value of a health check.
MaxRetries == 2

\* Probe outcomes drawn for one health gate (at least MaxRetries).
MaxProbes == MaxRetries

\* Largest retries count of a health check called on its own.
MaxCheckRetries == 3

\* More than the steps of any Check call: a start-period wait, then
\* MaxCheckRetries probes with a wait between two of them.
MaxCheckSteps == 2 * MaxCheckRetries + 1

\* ------------------------------------------------------------ value spaces

\* Unit names used by the resolver specification.
NodeNames == {"A", "B", "C"}

NoName == ""

\* ------------------------------------------------------------ sequences

Range(s) == {s[i] : i \in 1..Len(s)}

Reverse(s) == [i \in 1..Len(s) |-> s[Len(s) + 1 - i]]

\* Sequences over S without repetition, of length at most n.
RECURSIVE DistinctSeqs(_, _)
DistinctSeqs(S, n) ==
    IF n = 0 \/ S = {} THEN {<<>>}
    ELSE {<<>>} \cup
         UNION {{<<x>> \o t : t \in DistinctSeqs(S \ {x}, n - 1)} : x \in S}

\* Number of positions of s that hold x.
Count(s, x) == Cardinality({i \in 1..Len(s) : s[i] = x})

\* ---------------------------------------------- dependencies.go: resolver

\* dependencies[name] of a Go map: the nil slice for a missing key.
DepsOf(dependencies, name) ==
    IF name \in DOMAIN dependencies THEN dependencies[name] ELSE <<>>

\* The closure state of resolveDependencyOrder: the visited and temp maps (as
\* the sets of names mapped to true), the order slice, and the error returned
\* by visit (cycleAt is the name in the message while failed holds).
InitVisit == [visited |-> {}, temp |-> {}, order |-> <<>>,
              failed |-> FALSE, cycleAt |-> NoName]

\* A visit that keeps one map only: a name is marked visited on entry, so a
\* name met again on the current path is skipped instead of reported.
RECURSIVE visitOneMap(_, _, _)
RECURSIVE visitDepsOneMap(_, _, _, _)
visitOneMap(name, dependencies, st) ==
    IF name \in st.visited THEN st
    ELSE LET st1 == [st EXCEPT !.visited = @ \cup {name}]
             st2 == visitDepsOneMap(DepsOf(dependencies, name), 1, dependencies, st1)
         IN [st2 EXCEPT !.order = Append(@, name)]

visitDepsOneMap(deps, i, dependencies, st) ==
    IF i > Len(deps) THEN st
    ELSE visitDepsOneMap(deps, i + 1, dependencies,
                         visitOneMap(deps[i], dependencies, st))

RECURSIVE visit(_, _, _)
RECURSIVE visitDeps(_, _, _, _)
\* visit (dependencies.go 75-104).
visit(name, dependencies, st) ==
    IF name \in st.temp
    THEN [st EXCEPT !.failed = TRUE, !.cycleAt = name]
    ELSE IF name \in st.visited THEN st
    ELSE LET st1 == [st EXCEPT !.temp = @ \cup {name}]
             st2 == visitDeps(DepsOf(dependencies, name), 1, dependencies, st1)
         IN IF st2.failed THEN st2
            ELSE [st2 EXCEPT !.visited = @ \cup {name},
                             !.temp = @ \ {name},
                             !.order = Append(@, name)]

\* The loop over dependencies[name] (dependencies.go 90-94): it returns at the
\* first dependency whose visit fails.
visitDeps(deps, i, dependencies, st) ==
    IF i > Len(deps) THEN st
    ELSE LET st1 == visit(deps[i], dependencies, st)
         IN IF st1.failed THEN st1
            ELSE visitDeps(deps, i + 1, dependencies, st1)

\* The loop over names (dependencies.go 107-113).
RECURSIVE visitAll(_, _, _, _)
visitAll(names, i, dependencies, st) ==
    IF i > Len(names) THEN st
    ELSE IF names[i] \in st.visited
    THEN visitAll(names, i + 1, dependencies, st)
    ELSE LET st1 == visit(names[i], dependencies, st)
         IN IF st1.failed THEN st1
            ELSE visitAll(names, i + 1, dependencies, st1)

\* The names loop run with the one-map visit.
RECURSIVE visitAllOneMap(_, _, _, _)
visitAllOneMap(names, i, dependencies, st) ==
    IF i > Len(names) THEN st
    ELSE visitAllOneMap(names, i + 1, dependencies,
                        visitOneMap(names[i], dependencies, st))

\* resolveDependencyOrder without the temp map.
resolveOneMap(names, dependencies) ==
    LET st == visitAllOneMap(names, 1, dependencies, InitVisit)
    IN [ok |-> TRUE, order |-> Reverse(st.order), cycleAt |-> NoName]

\* resolveDependencyOrder that returns the completion list as it stands.
resolveInCompletionOrder(names, dependencies) ==
    LET st == visitAll(names, 1, dependencies, InitVisit)
    IN IF st.failed
       THEN [ok |-> FALSE, order |-> <<>>, cycleAt |-> st.cycleAt]
       ELSE [ok |-> TRUE, order |-> st.order, cycleAt |-> NoName]

\* resolveDependencyOrder (dependencies.go 67-121): (order, nil) or
\* (nil, "cycle detected in dependencies involving <cycleAt>").
resolveDependencyOrder(names, dependencies) ==
    LET st == visitAll(names, 1, dependencies, InitVisit)
    IN IF st.failed
       THEN [ok |-> FALSE, order |-> <<>>, cycleAt |-> st.cycleAt]
       ELSE [ok |-> TRUE, order |-> Reverse(st.order), cycleAt |-> NoName]

\* Names of the entries of a unit list, in list order.
NamesOf(units) == [i \in 1..Len(units) |-> units[i].Name]

\* The dependencies map built by the loops of dependencies.go 16-20 / 44-48.
DependencyMap(units) ==
    [n \in Range(NamesOf(units)) |->
        units[CHOOSE i \in 1..Len(units) :
                 /\ units[i].Name = n
                 /\ \A j \in (i + 1)..Len(units) : units[j].Name # n].DependsOn]

\* nameToIndex[name] of dependencies.go 13-18 / 41-46, as a position of the
\* 1-based list: a missing key reads as Go's zero index, the first entry.
NameToIndex(units, name) ==
    IF name \in Range(NamesOf(units))
    THEN CHOOSE i \in 1..Len(units) :
            /\ units[i].Name = name
            /\ \A j \in (i + 1)..Len(units) : units[j].Name # name
    ELSE 1

\* resolveServiceDependencies / resolveAppDependencies (dependencies.go 10-63):
\* the two functions differ in the element type only.
resolveUnitDependencies(units) ==
    LET r == resolveDependencyOrder(NamesOf(units), DependencyMap(units))
    IN IF ~r.ok THEN [ok |-> FALSE, units |-> <<>>, cycleAt |-> r.cycleAt]
       ELSE [ok |-> TRUE,
             units |-> [i \in 1..Len(r.order) |->
                           units[NameToIndex(units, r.order[i])]],
             cycleAt |-> NoName]

resolveServiceDependencies(services) == resolveUnitDependencies(services)

resolveAppDependencies(apps) == resolveUnitDependencies(apps)

\* ------------------------------------------------- config: the input domain

\* Names of the configured services and apps, in configuration order.
ServiceNames == <<"S1", "S2">>

AppNames == <<"A1", "A2">>

ProxyName == "shipyard-proxy"

\* Health check settings a unit may carry once ApplyDefaults has run (the type
\* is never empty then): an http check with a path, retries and a start period, a tcp
\* check whose retries and start period were left at zero, and a type the
\* checker does not support.
HealthChecks ==
    {[Type |-> "http", Path |-> "/health", Retries |-> MaxRetries, StartPeriod |-> 1],
     [Type |-> "tcp", Path |-> "", Retries |-> 0, StartPeriod |-> 0],
     [Type |-> "custom", Path |-> "", Retries |-> 1, StartPeriod |-> 0]}

\* The subsequences of nameList of length at most n: dependsOn lists that name
\* units in declaration order.
RECURSIVE SubLists(_, _)
SubLists(nameList, n) ==
    IF nameList = <<>> \/ n = 0 THEN {<<>>}
    ELSE SubLists(Tail(nameList), n) \cup
         {<<Head(nameList)>> \o t : t \in SubLists(Tail(nameList), n - 1)}

\* Unit lists named by the first k entries of nameList, each with a dependsOn
\* list drawn from depLists and the health check hc.
RECURSIVE UnitLists(_, _, _, _)
UnitLists(nameList, k, depLists, hc) ==
    IF k = 0 THEN {<<>>}
    ELSE {Append(us, [Name |-> nameList[k], DependsOn |-> d, HealthCheck |-> hc]) :
             us \in UnitLists(nameList, k - 1, depLists, hc),
             d \in depLists}

\* The error Validate returns (validation.go 9-97), as far as the unit lists
\* decide it: the message, the unit it names and the dependency it names.
NoValidateError == [msg |-> "nil", unit |-> NoName, dep |-> NoName]

ValidateErrorOf(msg, unit, dep) == [msg |-> msg, unit |-> unit, dep |-> dep]

\* The least number of a non-empty set of numbers.
Least(S) == CHOOSE x \in S : \A y \in S : x <= y

\* The first entry of dependsOn that is not among the names known so far, as
\* the loops over DependsOn find it (validation.go 35-39, 78-82).
UndefinedDeps(dependsOn, known) ==
    {k \in 1..Len(dependsOn) : dependsOn[k] \notin known}

\* One turn of the loop over config.Services (validation.go 20-40).
ValidateService(config, i) ==
    LET service == config.Services[i]
        serviceNames == {config.Services[j].Name : j \in 1..i}
        undefined == UndefinedDeps(service.DependsOn, serviceNames)
    IN IF \E j \in 1..(i - 1) : config.Services[j].Name = service.Name
       THEN ValidateErrorOf("duplicate service name", service.Name, NoName)
       ELSE IF undefined # {}
       THEN ValidateErrorOf("service depends on undefined service", service.Name,
                            service.DependsOn[Least(undefined)])
       ELSE NoValidateError

\* One turn of the loop over config.Apps (validation.go 47-83).
ValidateApp(config, i) ==
    LET app == config.Apps[i]
        serviceNames == Range(NamesOf(config.Services))
        appNames == {config.Apps[j].Name : j \in 1..i}
        undefined == UndefinedDeps(app.DependsOn, serviceNames \cup appNames)
    IN IF \E j \in 1..(i - 1) : config.Apps[j].Name = app.Name
       THEN ValidateErrorOf("duplicate app name", app.Name, NoName)
       ELSE IF undefined # {}
       THEN ValidateErrorOf("app depends on undefined service or app", app.Name,
                            app.DependsOn[Least(undefined)])
       ELSE NoValidateError

\* Validate returns the first error its loops come across: a service may
\* depend on the services declared up to and including itself, an app on every
\* service and on the apps declared up to and including itself; names are
\* unique within each list.
ValidateError(config) ==
    LET badServices == {i \in 1..Len(config.Services) :
                           ValidateService(config, i) # NoValidateError}
        badApps == {i \in 1..Len(config.Apps) :
                       ValidateApp(config, i) # NoValidateError}
    IN IF badServices # {} THEN ValidateService(config, Least(badServices))
       ELSE IF badApps # {} THEN ValidateApp(config, Least(badApps))
       ELSE NoValidateError

\* A validation that accepts every configuration.
ValidateAnything(config) == TRUE

\* Whether Validate returned nil (config.Load fails otherwise).
Validate(config) == ValidateError(config) = NoValidateError

\* Every configuration over the unit names, valid or not: up to
\* Len(ServiceNames) services whose dependsOn lists name services, and up to
\* Len(AppNames) apps whose dependsOn lists name services and apps; a name on
\* a dependsOn list may be declared before the unit, after it or not at all.
AllConfigs ==
    UNION {
      UNION {
        {[Services |-> ss, Apps |-> as, SSLEnabled |-> ssl] :
            ss \in UnitLists(ServiceNames, n, SubLists(ServiceNames, MaxUnitDeps), hc),
            as \in UnitLists(AppNames, m,
                             SubLists(ServiceNames \o AppNames, MaxUnitDeps), hc),
            ssl \in BOOLEAN} :
        n \in 0..Len(ServiceNames), m \in 0..Len(AppNames)} :
      hc \in HealthChecks}

\* config.Load (config.go 92-116) hands main only configurations that passed
\* Validate.
LoadedConfigs == {c \in AllConfigs : Validate(c)}

\* ------------------------------------------------ health: Checker.Check

\* Probe outcomes of the attempts of one Check call.
ProbeResults == [1..MaxProbes -> BOOLEAN]

\* A call is described by the steps it takes, in order: the waits and the
\* probes of Check, the attempts and the sleeps of checkEndpoint.  The context
\* of a call is described by cancelAt, the number of the step during which it
\* is cancelled: 0 for a context that is cancelled when the call is made, a
\* number above the steps of the call for one that is not cancelled during it.
CtxDoneBefore(cancelAt, k) == cancelAt < k

CtxDoneBy(cancelAt, k) == cancelAt <= k

\* A select on time.After(d) and ctx.Done() with d > 0 (part_000 148-153,
\* 166-171): completed is FALSE when ctx.Done() won.
Wait(what, completed) == [kind |-> "wait", what |-> what, ok |-> completed]

\* What the probed port answers to one probe: nothing (the connection or the
\* request fails), or a connection over which an HTTP request gets a status.
NoResponse == 0

ProbeResponses == {NoResponse, 200, 304, 404}

\* checkHTTP (part_000 206-233): the error it returns.
checkHTTP(response) ==
    IF response = NoResponse THEN "HTTP request failed"
    ELSE IF response < 200 \/ response >= 400
    THEN "HTTP health check failed with status"
    ELSE "nil"

\* checkTCP (part_000 236-251): the error it returns.
checkTCP(response) ==
    IF response = NoResponse THEN "TCP connection failed" ELSE "nil"

\* Whether the probe of a check of the given type returns nil (part_000
\* 176-183); a check of another type makes no probe.
probeReturnsNil(type, response) ==
    CASE type = "http" -> checkHTTP(response) = "nil"
      [] type = "tcp" -> checkTCP(response) = "nil"
      [] OTHER -> FALSE

\* One checkHTTP / checkTCP call (part_000 176-183) and whether it returned nil.
Probe(type, ok) == [kind |-> "probe", what |-> type, ok |-> ok]

\* A retry loop whose waits do not watch the context.
RECURSIVE CheckLoopSleep(_, _, _, _, _)
CheckLoopSleep(options, probeOk, cancelAt, attempt, events) ==
    IF attempt >= options.Retries
    THEN [err |-> "health check failed", lastErr |-> attempt, events |-> events]
    ELSE LET waited == IF attempt > 0
                       THEN Append(events, Wait("interval", TRUE))
                       ELSE events
             ok == probeOk[attempt + 1] /\ ~CtxDoneBefore(cancelAt, Len(waited) + 1)
         IN IF options.Type \notin {"http", "tcp"}
            THEN [err |-> "unsupported health check type", lastErr |-> attempt,
                  events |-> waited]
            ELSE IF ok
            THEN [err |-> "nil", lastErr |-> attempt,
                  events |-> Append(waited, Probe(options.Type, TRUE))]
            ELSE CheckLoopSleep(options, probeOk, cancelAt, attempt + 1,
                                Append(waited, Probe(options.Type, FALSE)))

\* A retry loop that waits before every attempt, the first one included.
RECURSIVE CheckLoopWaitFirst(_, _, _, _, _)
CheckLoopWaitFirst(options, probeOk, cancelAt, attempt, events) ==
    IF attempt >= options.Retries
    THEN [err |-> "health check failed", lastErr |-> attempt, events |-> events]
    ELSE LET cancelled == CtxDoneBy(cancelAt, Len(events) + 1)
             waited == Append(events, Wait("interval", ~cancelled))
             ok == probeOk[attempt + 1] /\ ~CtxDoneBefore(cancelAt, Len(waited) + 1)
         IN IF cancelled
            THEN [err |-> "context canceled", lastErr |-> attempt, events |-> waited]
            ELSE IF options.Type \notin {"http", "tcp"}
            THEN [err |-> "unsupported health check type", lastErr |-> attempt,
                  events |-> waited]
            ELSE IF ok
            THEN [err |-> "nil", lastErr |-> attempt,
                  events |-> Append(waited, Probe(options.Type, TRUE))]
            ELSE CheckLoopWaitFirst(options, probeOk, cancelAt, attempt + 1,
                                    Append(waited, Probe(options.Type, FALSE)))

\* A retry loop that goes on probing after a probe succeeded and reports
\* success when the attempts are used up.
RECURSIVE CheckLoopNoReturn(_, _, _, _, _)
CheckLoopNoReturn(options, probeOk, cancelAt, attempt, events) ==
    IF attempt >= options.Retries
    THEN [err |-> IF \E i \in 1..Len(events) :
                        events[i].kind = "probe" /\ events[i].ok
                  THEN "nil" ELSE "health check failed",
          lastErr |-> attempt, events |-> events]
    ELSE LET cancelled == attempt > 0 /\ CtxDoneBy(cancelAt, Len(events) + 1)
             waited == IF attempt > 0
                       THEN Append(events, Wait("interval", ~cancelled))
                       ELSE events
             ok == probeOk[attempt + 1] /\ ~CtxDoneBefore(cancelAt, Len(waited) + 1)
         IN IF cancelled
            THEN [err |-> "context canceled", lastErr |-> attempt, events |-> waited]
            ELSE IF options.Type \notin {"http", "tcp"}
            THEN [err |-> "unsupported health check type", lastErr |-> attempt,
                  events |-> waited]
            ELSE CheckLoopNoReturn(options, probeOk, cancelAt, attempt + 1,
                                   Append(waited, Probe(options.Type, ok)))

\* A retry loop that returns nil when it made no attempt: there is no last
\* error to report.
CheckLoopPassesEmpty(options, probeOk, cancelAt, attempt, events) ==
    IF attempt >= options.Retries
    THEN [err |-> IF attempt = 0 THEN "nil" ELSE "health check failed",
          lastErr |-> attempt, events |-> events]
    ELSE CheckLoopSleep(options, probeOk, cancelAt, attempt, events)

\* Check's retry loop (part_000 156-203) from attempt number `attempt`
\* (0-based, as in the code) after the steps `events`: the error returned, the
\* attempt whose error lastErr holds (0 for nil) and the steps taken.  A probe
\* made with a context that is already cancelled fails; a wait during or
\* before which the context is cancelled returns ctx.Err().
RECURSIVE CheckLoop(_, _, _, _, _)
CheckLoop(options, probeOk, cancelAt, attempt, events) ==
    IF attempt >= options.Retries
    THEN [err |-> "health check failed", lastErr |-> attempt, events |-> events]
    ELSE LET cancelled == attempt > 0 /\ CtxDoneBy(cancelAt, Len(events) + 1)
             waited == IF attempt > 0
                       THEN Append(events, Wait("interval", ~cancelled))
                       ELSE events
             ok == probeOk[attempt + 1] /\ ~CtxDoneBefore(cancelAt, Len(waited) + 1)
         IN IF cancelled
            THEN [err |-> "context canceled", lastErr |-> attempt, events |-> waited]
            ELSE IF options.Type \notin {"http", "tcp"}
            THEN [err |-> "unsupported health check type", lastErr |-> attempt,
                  events |-> waited]
            ELSE IF ok
            THEN [err |-> "nil", lastErr |-> attempt,
                  events |-> Append(waited, Probe(options.Type, TRUE))]
            ELSE CheckLoop(options, probeOk, cancelAt, attempt + 1,
                           Append(waited, Probe(options.Type, FALSE)))

\* Checker.Check (part_000 142-203): the start-period wait, then the loop.
Check(options, probeOk, cancelAt) ==
    LET cancelled == options.StartPeriod > 0 /\ CtxDoneBy(cancelAt, 1)
        start == IF options.StartPeriod > 0
                 THEN <<Wait("startPeriod", ~cancelled)>>
                 ELSE <<>>
    IN IF cancelled
       THEN [err |-> "context canceled", lastErr |-> 0, events |-> start]
       ELSE CheckLoop(options, probeOk, cancelAt, 0, start)

\* ------------------------------------------------ end/external.go

\* The arguments VerifyExternalAccess passes to checkEndpoint (external.go 75).
MaxAttempts == 5

InitialWaitSeconds == 3

\* time.Second, with time.Duration counted in microseconds: every wait of a
\* check is a whole number of them, as it is of nanoseconds.
Second == 1000000

\* More than the steps of any checkEndpoint call: an attempt and a sleep per
\* attempt.
MaxEndpointSteps == 2 * MaxAttempts + 1

\* What one GET can bring: a 2xx status, another status, a transport error.
Responses == {"2xx", "non2xx", "transport"}

\* URLs handed to checkEndpoint; http.NewRequestWithContext rejects the last
\* one (a host with a space does not parse).
Urls == {"http://example.com", "https://app.example.com/health", "http://exa mple.com"}

ValidUrl(url) == url # "http://exa mple.com"

\* One v.client.Do (external.go 113) and its outcome.
Attempt(n, response) ==
    [kind |-> "attempt", n |-> n, response |-> response, d |-> 0,
     ok |-> response = "2xx"]

\* One time.Sleep(waitTime) (external.go 116, 130), which runs its full time.
Sleep(n, d) ==
    [kind |-> "sleep", n |-> n, response |-> "", d |-> d, ok |-> TRUE]

NilError == [msg |-> "nil", app |-> NoName, url |-> "", cause |-> "", attempts |-> 0]

\* An error of checkEndpoint, and the one VerifyExternalAccess wraps it in
\* (external.go 76).
EndpointError(msg, attempts) ==
    [msg |-> msg, app |-> NoName, url |-> "", cause |-> "", attempts |-> attempts]

WrapEndpointError(app, url, err) ==
    [msg |-> "external verification failed", app |-> app, url |-> url,
     cause |-> err.msg, attempts |-> err.attempts]

\* A loop that takes a 2xx status for success at the last attempt only.
RECURSIVE checkEndpointLoopLastOnly(_, _, _, _, _, _, _)
checkEndpointLoopLastOnly(url, maxAttempts, responses, cancelAt, attempt, waitTime, events) ==
    IF attempt > maxAttempts
    THEN [err |-> EndpointError("endpoint verification failed after attempts",
                                maxAttempts),
          events |-> events]
    ELSE IF CtxDoneBefore(cancelAt, Len(events) + 1)
    THEN [err |-> EndpointError("context canceled", 0), events |-> events]
    ELSE IF ~ValidUrl(url)
    THEN [err |-> EndpointError("invalid url", 0), events |-> events]
    ELSE LET tried == Append(events, Attempt(attempt, responses[attempt]))
         IN IF responses[attempt] = "2xx" /\ attempt = maxAttempts
            THEN [err |-> NilError, events |-> tried]
            ELSE checkEndpointLoopLastOnly(url, maxAttempts, responses, cancelAt,
                                           attempt + 1, waitTime + (waitTime \div 2),
                                           Append(tried, Sleep(attempt, waitTime)))

\* A loop that returns the failure right after the last failed attempt,
\* without the wait.
RECURSIVE checkEndpointLoopNoLastSleep(_, _, _, _, _, _, _)
checkEndpointLoopNoLastSleep(url, maxAttempts, responses, cancelAt, attempt, waitTime, events) ==
    IF attempt > maxAttempts
    THEN [err |-> EndpointError("endpoint verification failed after attempts",
                                maxAttempts),
          events |-> events]
    ELSE IF CtxDoneBefore(cancelAt, Len(events) + 1)
    THEN [err |-> EndpointError("context canceled", 0), events |-> events]
    ELSE IF ~ValidUrl(url)
    THEN [err |-> EndpointError("invalid url", 0), events |-> events]
    ELSE LET tried == Append(events, Attempt(attempt, responses[attempt]))
         IN IF responses[attempt] = "2xx"
            THEN [err |-> NilError, events |-> tried]
            ELSE checkEndpointLoopNoLastSleep(url, maxAttempts, responses, cancelAt,
                                   attempt + 1, waitTime + (waitTime \div 2),
                                   IF attempt = maxAttempts THEN tried
                                   ELSE Append(tried, Sleep(attempt, waitTime)))

\* The loop of checkEndpoint (external.go 96-135) from attempt number
\* `attempt` (1-based, as in the code) with the wait waitTime, after the steps
\* `events`: ctx.Done() is polled at the top of each iteration only, and a
\* request made while the context is cancelled has the outcome given.
RECURSIVE checkEndpointLoop(_, _, _, _, _, _, _)
checkEndpointLoop(url, maxAttempts, responses, cancelAt, attempt, waitTime, events) ==
    IF attempt > maxAttempts
    THEN [err |-> EndpointError("endpoint verification failed after attempts",
                                maxAttempts),
          events |-> events]
    ELSE IF CtxDoneBefore(cancelAt, Len(events) + 1)
    THEN [err |-> EndpointError("context canceled", 0), events |-> events]
    ELSE IF ~ValidUrl(url)
    THEN [err |-> EndpointError("invalid url", 0), events |-> events]
    ELSE LET tried == Append(events, Attempt(attempt, responses[attempt]))
         IN IF responses[attempt] = "2xx"
            THEN [err |-> NilError, events |-> tried]
            ELSE checkEndpointLoop(url, maxAttempts, responses, cancelAt,
                                   attempt + 1, waitTime + (waitTime \div 2),
                                   Append(tried, Sleep(attempt, waitTime)))

\* checkEndpoint (external.go 93-136).
checkEndpoint(url, maxAttempts, initialWaitSeconds, responses, cancelAt) ==
    checkEndpointLoop(url, maxAttempts, responses, cancelAt, 1,
                      initialWaitSeconds * Second, <<>>)

\* The check of an app's main URL in VerifyExternalAccess (external.go 74-77).
VerifyMainUrl(app, url, responses, cancelAt) ==
    LET r == checkEndpoint(url, MaxAttempts, InitialWaitSeconds, responses, cancelAt)
    IN IF r.err = NilError
       THEN r
       ELSE [r EXCEPT !.err = WrapEndpointError(app, url, r.err)]

\* ------------------------------------------------------------------ state

VARIABLES
    names,            \* resolver specification: the names argument
    dependencies,     \* resolver specification: the dependencies argument
    resolved,         \* resolver specification: the value returned
    resolverPc,       \* resolver specification: "input" | "returned" | "idle"
    config,           \* Manager.config, as loaded by main
    pc,               \* main's position in Deploy / Rollback / verification
    pending,          \* the entries the running loop has still to range over
    deployments,      \* Manager.deployments: name -> Deployment
    containers,       \* the runtime's containers: name -> state
    proxyContainerID, \* proxy.Manager.containerID
    deployErr,        \* the value Deploy returned
    rollbackErrors,   \* len(errors) in Rollback
    rollbackErr,      \* the value Rollback returned
    registeredAtRollback, \* the names registered when Rollback was entered
    trace,            \* the collaborator calls made so far, in order
    exitCode,         \* the process exit status
    signalled,        \* main's signal goroutine received a signal and cancelled ctx
    timedOut,         \* the timeout of the context Deploy derived has fired
    checkInput,       \* health gate specification: the arguments of Check
    checkResult,      \* health gate specification: the value Check returned
    endpointInput,    \* endpoint specification: the arguments of the check
    endpointResult    \* endpoint specification: the value the check returned

vars == <<names, dependencies, resolved, resolverPc, config, pc, pending,
          deployments, containers, proxyContainerID, deployErr, rollbackErrors,
          rollbackErr, registeredAtRollback, trace, exitCode, signalled,
          timedOut, checkInput, checkResult, endpointInput, endpointResult>>

resolverVars == <<names, dependencies, resolved, resolverPc>>

checkVars == <<checkInput, checkResult>>

endpointVars == <<endpointInput, endpointResult>>

\* The variables of the specifications of single calls, which main's run
\* leaves alone.
callVars == <<resolverVars, checkVars, endpointVars>>

runVars == <<config, pc, pending, deployments, containers, proxyContainerID,
             deployErr, rollbackErrors, rollbackErr, registeredAtRollback,
             trace, exitCode, signalled, timedOut>>

UnitNames == Range(ServiceNames) \cup Range(AppNames)

ContainerNames == UnitNames \cup {ProxyName}

\* Deploy's and Rollback's return values.
NoError == [phase |-> "", unit |-> NoName, cause |-> "nil"]

NotReturned == [phase |-> "", unit |-> NoName, cause |-> "running"]

Error(phase, unit, cause) == [phase |-> phase, unit |-> unit, cause |-> cause]

RollbackNotReturned == -1

NoExit == -1

\* One collaborator call and whether it returned without error.
Call(op, name, ok) == [op |-> op, name |-> name, ok |-> ok]

\* make(map[string]*Deployment) (manager.go 71).
EmptyRegistry == [n \in {} |-> NoName]

EmptyConfig == [Services |-> <<>>, Apps |-> <<>>, SSLEnabled |-> FALSE]

NoResult == [ok |-> TRUE, order |-> <<>>, cycleAt |-> NoName]

ResolverIdle ==
    /\ names = <<>>
    /\ dependencies = <<>>
    /\ resolved = NoResult
    /\ resolverPc = "idle"

\* Check's specification is not running.
NoCheck == [options |-> [Type |-> "", Retries |-> 0, StartPeriod |-> 0],
            responses |-> <<>>, cancelAt |-> 0]

NoCheckResult == [err |-> "", lastErr |-> 0, events |-> <<>>]

CheckIdle ==
    /\ checkInput = NoCheck
    /\ checkResult = NoCheckResult

\* The endpoint check's specification is not running.
NoEndpoint == [app |-> NoName, url |-> "", responses |-> <<>>, cancelAt |-> 0]

NoEndpointResult == [err |-> EndpointError("", 0), events |-> <<>>]

EndpointIdle ==
    /\ endpointInput = NoEndpoint
    /\ endpointResult = NoEndpointResult

\* main before config.Load (main.go 16-35), the signal goroutine installed,
\* with the registry NewManager will make (manager.go 71); cfg is the
\* configuration the inputs describe.
RunInit(cfg) ==
    /\ config = cfg
    /\ pc = "load"
    /\ signalled = FALSE
    /\ timedOut = FALSE
    /\ pending = <<>>
    /\ deployments = EmptyRegistry
    /\ containers = [n \in ContainerNames |-> "none"]
    /\ proxyContainerID = NoName
    /\ deployErr = NotReturned
    /\ rollbackErrors = 0
    /\ rollbackErr = RollbackNotReturned
    /\ registeredAtRollback = {}
    /\ trace = <<>>
    /\ exitCode = NoExit

Init ==
    /\ ResolverIdle
    /\ CheckIdle
    /\ EndpointIdle
    /\ \E cfg \in AllConfigs : RunInit(cfg)

\* ------------------------------------------------- main.go: before Deploy

\* config.Load and NewManager (main.go 35-47): a configuration that Validate
\* rejects makes Load return an error and main exit with status 1.
Load ==
    /\ pc = "load"
    /\ IF Validate(config)
       THEN pc' = "network" /\ UNCHANGED exitCode
       ELSE pc' = "exit" /\ exitCode' = 1
    /\ UNCHANGED <<config, pending, deployments, containers, proxyContainerID,
                   deployErr, rollbackErrors, rollbackErr, registeredAtRollback,
                   trace>>
    /\ UNCHANGED <<signalled, timedOut, callVars>>

\* The signal goroutine (main.go 24-28) receives SIGINT or SIGTERM and cancels
\* the root context.
Signal ==
    /\ pc # "exit"
    /\ ~signalled
    /\ signalled' = TRUE
    /\ UNCHANGED <<config, pc, pending, deployments, containers, proxyContainerID,
                   deployErr, rollbackErrors, rollbackErr, registeredAtRollback,
                   trace, exitCode, timedOut>>
    /\ UNCHANGED callVars

\* The signal goroutine, five seconds after the signal (main.go 30-31), ends
\* the process with status 1 wherever main is.
SignalExit ==
    /\ pc # "exit"
    /\ signalled
    /\ exitCode' = 1
    /\ pc' = "exit"
    /\ UNCHANGED <<config, pending, deployments, containers, proxyContainerID,
                   deployErr, rollbackErrors, rollbackErr, registeredAtRollback,
                   trace, signalled, timedOut>>
    /\ UNCHANGED callVars

\* Deploy's position is inside Deploy (manager.go 76-115).
DeployPcs == {"network", "ssl", "services", "services_loop", "apps", "apps_loop",
              "proxy"}

\* The timeout of the context Deploy derives from main's (manager.go 79-84)
\* fires while Deploy runs; after ApplyDefaults config.Timeout is positive, so
\* every Deploy has one.
Timeout ==
    /\ pc \in DeployPcs
    /\ ~timedOut
    /\ timedOut' = TRUE
    /\ UNCHANGED <<config, pc, pending, deployments, containers, proxyContainerID,
                   deployErr, rollbackErrors, rollbackErr, registeredAtRollback,
                   trace, exitCode, signalled>>
    /\ UNCHANGED callVars

\* A root context that shares the timer of the context Deploy derives.
RootCtxSharedWithDeploy == signalled \/ timedOut

\* A root context nobody cancels.
RootCtxBackground == FALSE

\* The context main passes to Deploy, Rollback and VerifyExternalAccess is
\* cancelled, and the one Deploy passes on (manager.go 82) is.
RootCtxDone == signalled

DeployCtxDone == signalled \/ timedOut

\* The timer of Deploy's context is not reset by a step of Deploy: once the
\* deadline has passed the derived context stays done, and Deploy's deferred
\* cancel (manager.go 83) only releases it.
DeployCtxKept == timedOut' = timedOut

\* A call that answers as if its context were never cancelled.
AnswersAnyway(ctxDone) == BOOLEAN

\* What a call that is handed a context can answer: an error when the context
\* is already cancelled, else success or an error of its own.
Answers(ctxDone) == IF ctxDone THEN {FALSE} ELSE BOOLEAN

\* ------------------------------------------- manager.go: one unit's deploy

\* What the collaborators answer during one deployService / deployApp call.
\* scanOk is FALSE for a scan that failed or reported critical findings.
DeployEnvs ==
    [pullOk : Answers(DeployCtxDone), scanOk : Answers(DeployCtxDone),
     createOk : Answers(DeployCtxDone), startOk : Answers(DeployCtxDone),
     probeOk : ProbeResults]

\* performHealthCheck (manager.go 399-414).
\* The context is the one Deploy passes on; a unit deploy is one step, so the
\* context is either cancelled before the gate or not during it.
performHealthCheck(name, healthCfg, probeOk) ==
    LET options == [Type |-> healthCfg.Type, Retries |-> healthCfg.Retries,
                    StartPeriod |-> healthCfg.StartPeriod]
    IN Check(options, probeOk, IF DeployCtxDone THEN 0 ELSE MaxCheckSteps)

\* A unit deploy that inserts the record only once the health gate has passed.
deployUnitRecordAfterHealth(unit, serviceType, env) ==
    LET pull   == Call("pull", unit.Name, env.pullOk)
        scan   == Call("scan", unit.Name, env.scanOk)
        create == Call("create", unit.Name, env.createOk)
        start  == Call("start", unit.Name, env.startOk)
        hc     == performHealthCheck(unit.Name, unit.HealthCheck, env.probeOk)
        health == Call("health", unit.Name, hc.err = "nil")
        record == [Name |-> unit.Name, ContainerID |-> unit.Name,
                   ServiceType |-> serviceType, DependsOn |-> unit.DependsOn]
    IN IF ~env.pullOk
       THEN [err |-> "failed to pull image", calls |-> <<pull>>,
             container |-> "none", recorded |-> FALSE, record |-> record]
       ELSE IF ~env.createOk
       THEN [err |-> "failed to create container", calls |-> <<pull, scan, create>>,
             container |-> "none", recorded |-> FALSE, record |-> record]
       ELSE IF ~env.startOk
       THEN [err |-> "failed to start container",
             calls |-> <<pull, scan, create, start>>,
             container |-> "created", recorded |-> FALSE, record |-> record]
       ELSE [err |-> hc.err, calls |-> <<pull, scan, create, start, health>>,
             container |-> "running", recorded |-> hc.err = "nil",
             record |-> record]

\* A unit deploy that gives up when the scan failed or reported findings.
deployUnitScanAborts(unit, serviceType, env) ==
    LET pull   == Call("pull", unit.Name, env.pullOk)
        scan   == Call("scan", unit.Name, env.scanOk)
        create == Call("create", unit.Name, env.createOk)
        start  == Call("start", unit.Name, env.startOk)
        hc     == performHealthCheck(unit.Name, unit.HealthCheck, env.probeOk)
        health == Call("health", unit.Name, hc.err = "nil")
        record == [Name |-> unit.Name, ContainerID |-> unit.Name,
                   ServiceType |-> serviceType, DependsOn |-> unit.DependsOn]
    IN IF ~env.pullOk \/ ~env.scanOk
       THEN [err |-> "failed to pull image",
             calls |-> IF env.pullOk THEN <<pull, scan>> ELSE <<pull>>,
             container |-> "none", recorded |-> FALSE, record |-> record]
       ELSE IF ~env.createOk
       THEN [err |-> "failed to create container", calls |-> <<pull, scan, create>>,
             container |-> "none", recorded |-> FALSE, record |-> record]
       ELSE IF ~env.startOk
       THEN [err |-> "failed to start container",
             calls |-> <<pull, scan, create, start>>,
             container |-> "created", recorded |-> FALSE, record |-> record]
       ELSE [err |-> hc.err, calls |-> <<pull, scan, create, start, health>>,
             container |-> "running", recorded |-> TRUE, record |-> record]

\* A unit deploy that runs the health gate on the created container and
\* starts the container afterwards.
deployUnitProbeFirst(unit, serviceType, env) ==
    LET pull   == Call("pull", unit.Name, env.pullOk)
        scan   == Call("scan", unit.Name, env.scanOk)
        create == Call("create", unit.Name, env.createOk)
        start  == Call("start", unit.Name, env.startOk)
        hc     == performHealthCheck(unit.Name, unit.HealthCheck, env.probeOk)
        health == Call("health", unit.Name, hc.err = "nil")
        record == [Name |-> unit.Name, ContainerID |-> unit.Name,
                   ServiceType |-> serviceType, DependsOn |-> unit.DependsOn]
    IN IF ~env.pullOk
       THEN [err |-> "failed to pull image", calls |-> <<pull>>,
             container |-> "none", recorded |-> FALSE, record |-> record]
       ELSE IF ~env.createOk
       THEN [err |-> "failed to create container", calls |-> <<pull, scan, create>>,
             container |-> "none", recorded |-> FALSE, record |-> record]
       ELSE IF hc.err # "nil"
       THEN [err |-> hc.err, calls |-> <<pull, scan, create, health>>,
             container |-> "created", recorded |-> FALSE, record |-> record]
       ELSE IF ~env.startOk
       THEN [err |-> "failed to start container",
             calls |-> <<pull, scan, create, health, start>>,
             container |-> "created", recorded |-> FALSE, record |-> record]
       ELSE [err |-> "nil", calls |-> <<pull, scan, create, health, start>>,
             container |-> "running", recorded |-> TRUE, record |-> record]

\* deployService (manager.go 221-307) and deployApp (manager.go 310-396), which
\* differ in the ServiceType label only: the calls made in order, the state the
\* unit's container is left in, whether the record was inserted, the error.
deployUnit(unit, serviceType, env) ==
    LET pull   == Call("pull", unit.Name, env.pullOk)
        scan   == Call("scan", unit.Name, env.scanOk)
        create == Call("create", unit.Name, env.createOk)
        start  == Call("start", unit.Name, env.startOk)
        hc     == performHealthCheck(unit.Name, unit.HealthCheck, env.probeOk)
        health == Call("health", unit.Name, hc.err = "nil")
        record == [Name |-> unit.Name, ContainerID |-> unit.Name,
                   ServiceType |-> serviceType, DependsOn |-> unit.DependsOn]
    IN IF ~env.pullOk
       THEN [err |-> "failed to pull image", calls |-> <<pull>>,
             container |-> "none", recorded |-> FALSE, record |-> record]
       ELSE IF ~env.createOk
       THEN [err |-> "failed to create container", calls |-> <<pull, scan, create>>,
             container |-> "none", recorded |-> FALSE, record |-> record]
       ELSE IF ~env.startOk
       THEN [err |-> "failed to start container",
             calls |-> <<pull, scan, create, start>>,
             container |-> "created", recorded |-> FALSE, record |-> record]
       ELSE IF unit.HealthCheck.Type = ""
       THEN [err |-> "nil", calls |-> <<pull, scan, create, start>>,
             container |-> "running", recorded |-> TRUE, record |-> record]
       ELSE [err |-> hc.err, calls |-> <<pull, scan, create, start, health>>,
             container |-> "running", recorded |-> TRUE, record |-> record]

deployService(service, env) == deployUnit(service, "service", env)

deployApp(app, env) == deployUnit(app, "app", env)

\* A readiness check that passes whatever the registry holds.
areDependenciesAssumed(deps) == TRUE

\* areDependenciesDeployed (manager.go 439-446).
areDependenciesDeployed(deps) ==
    \A i \in 1..Len(deps) : deps[i] \in DOMAIN deployments

\* Deploy returns err to main, which goes on to Rollback (main.go 50-54).
DeployFails(err) ==
    /\ deployErr' = err
    /\ pc' = "rollback"

\* A deploy that rewrites the records already in the registry when it inserts
\* its own.
ApplyDeployRewrite(unit, r) ==
    /\ trace' = trace \o r.calls
    /\ containers' = IF r.container = "none" THEN containers
                      ELSE [containers EXCEPT ![unit.Name] = r.container]
    /\ deployments' = IF r.recorded
                      THEN (unit.Name :> r.record) @@
                           [n \in DOMAIN deployments |->
                               [deployments[n] EXCEPT !.DependsOn = <<>>]]
                      ELSE deployments

\* The state change of one deployService / deployApp call with result r.
ApplyDeploy(unit, r) ==
    /\ trace' = trace \o r.calls
    /\ containers' = IF r.container = "none" THEN containers
                      ELSE [containers EXCEPT ![unit.Name] = r.container]
    /\ deployments' = IF r.recorded
                      THEN (unit.Name :> r.record) @@ deployments
                      ELSE deployments

\* ------------------------------------------------- manager.go: Deploy

\* m.docker.Setup (manager.go 86-89).
DeployNetwork ==
    /\ pc = "network"
    /\ \E ok \in Answers(DeployCtxDone) :
          /\ trace' = Append(trace, Call("network", NoName, ok))
          /\ IF ok
             THEN pc' = "ssl" /\ UNCHANGED deployErr
             ELSE DeployFails(Error("network", NoName, "failed to setup Docker network"))
    /\ UNCHANGED <<config, pending, deployments, containers, proxyContainerID,
                   rollbackErrors, rollbackErr, registeredAtRollback, exitCode>>
    /\ DeployCtxKept
    /\ UNCHANGED <<signalled, callVars>>

\* A certificate setup that runs whether or not SSL is enabled.
DeploySSLAlways ==
    /\ pc = "ssl"
    /\ \E ok \in BOOLEAN :
          /\ trace' = Append(trace, Call("ssl", NoName, ok))
          /\ IF ok
             THEN pc' = "services" /\ UNCHANGED deployErr
             ELSE DeployFails(Error("ssl", NoName, "failed to setup SSL"))
    /\ UNCHANGED <<config, pending, deployments, containers, proxyContainerID,
                   rollbackErrors, rollbackErr, registeredAtRollback, exitCode>>
    /\ DeployCtxKept
    /\ UNCHANGED <<signalled, callVars>>

\* m.ssl.Setup, run only if SSL is enabled (manager.go 91-96).
DeploySSL ==
    /\ pc = "ssl"
    /\ IF config.SSLEnabled
       THEN \E ok \in BOOLEAN :
               /\ trace' = Append(trace, Call("ssl", NoName, ok))
               /\ IF ok
                  THEN pc' = "services" /\ UNCHANGED deployErr
                  ELSE DeployFails(Error("ssl", NoName, "failed to setup SSL"))
       ELSE /\ pc' = "services"
            /\ UNCHANGED <<trace, deployErr>>
    /\ UNCHANGED <<config, pending, deployments, containers, proxyContainerID,
                   rollbackErrors, rollbackErr, registeredAtRollback, exitCode>>
    /\ DeployCtxKept
    /\ UNCHANGED <<signalled, callVars>>

\* deployServices up to its loop (manager.go 159-166).
DeployServicesResolve ==
    /\ pc = "services"
    /\ LET r == resolveServiceDependencies(config.Services)
       IN IF r.ok
          THEN /\ pending' = r.units
               /\ pc' = "services_loop"
               /\ UNCHANGED deployErr
          ELSE /\ DeployFails(Error("services", r.cycleAt,
                                    "failed to resolve service dependencies"))
               /\ UNCHANGED pending
    /\ UNCHANGED <<config, deployments, containers, proxyContainerID,
                   rollbackErrors, rollbackErr, registeredAtRollback, trace, exitCode>>
    /\ DeployCtxKept
    /\ UNCHANGED <<signalled, callVars>>

\* A services loop that notes the first failure and goes on with the next
\* service instead of returning.
DeployServicesLoopKeepGoing ==
    /\ pc = "services_loop"
    /\ pending # <<>>
    /\ LET service == Head(pending)
       IN IF service.Name \in DOMAIN deployments
          THEN /\ pending' = Tail(pending)
               /\ UNCHANGED <<pc, deployErr, deployments, containers, trace>>
          ELSE IF ~areDependenciesDeployed(service.DependsOn)
          THEN /\ DeployFails(Error("services", service.Name,
                                    "dependencies are not yet deployed"))
               /\ UNCHANGED <<pending, deployments, containers, trace>>
          ELSE \E env \in DeployEnvs :
                  LET r == deployService(service, env)
                  IN /\ ApplyDeploy(service, r)
                     /\ pending' = Tail(pending)
                     /\ UNCHANGED pc
                     /\ deployErr' =
                           IF r.err = "nil" \/ deployErr # NotReturned
                           THEN deployErr
                           ELSE Error("services", service.Name, r.err)
    /\ UNCHANGED <<config, proxyContainerID, rollbackErrors, rollbackErr,
                   registeredAtRollback, exitCode>>
    /\ DeployCtxKept
    /\ UNCHANGED <<signalled, callVars>>

\* One iteration of the loop of deployServices (manager.go 169-184).
DeployServicesLoop ==
    /\ pc = "services_loop"
    /\ pending # <<>>
    /\ LET service == Head(pending)
       IN IF service.Name \in DOMAIN deployments
          THEN /\ pending' = Tail(pending)
               /\ UNCHANGED <<pc, deployErr, deployments, containers, trace>>
          ELSE IF ~areDependenciesDeployed(service.DependsOn)
          THEN /\ DeployFails(Error("services", service.Name,
                                    "dependencies are not yet deployed"))
               /\ UNCHANGED <<pending, deployments, containers, trace>>
          ELSE \E env \in DeployEnvs :
                  LET r == deployService(service, env)
                  IN /\ ApplyDeploy(service, r)
                     /\ IF r.err = "nil"
                        THEN /\ pending' = Tail(pending)
                             /\ UNCHANGED <<pc, deployErr>>
                        ELSE /\ DeployFails(Error("services", service.Name, r.err))
                             /\ UNCHANGED pending
    /\ UNCHANGED <<config, proxyContainerID, rollbackErrors, rollbackErr,
                   registeredAtRollback, exitCode>>
    /\ DeployCtxKept
    /\ UNCHANGED <<signalled, callVars>>

\* deployServices returns nil (manager.go 186) and Deploy goes on to the apps.
DeployServicesDone ==
    /\ pc = "services_loop"
    /\ pending = <<>>
    /\ pc' = "apps"
    /\ UNCHANGED <<config, pending, deployments, containers, proxyContainerID,
                   deployErr, rollbackErrors, rollbackErr, registeredAtRollback,
                   trace, exitCode>>
    /\ DeployCtxKept
    /\ UNCHANGED <<signalled, callVars>>

\* deployApps up to its loop (manager.go 190-197).
DeployAppsResolve ==
    /\ pc = "apps"
    /\ LET r == resolveAppDependencies(config.Apps)
       IN IF r.ok
          THEN /\ pending' = r.units
               /\ pc' = "apps_loop"
               /\ UNCHANGED deployErr
          ELSE /\ DeployFails(Error("apps", r.cycleAt,
                                    "failed to resolve app dependencies"))
               /\ UNCHANGED pending
    /\ UNCHANGED <<config, deployments, containers, proxyContainerID,
                   rollbackErrors, rollbackErr, registeredAtRollback, trace, exitCode>>
    /\ DeployCtxKept
    /\ UNCHANGED <<signalled, callVars>>

\* An apps loop that deploys an entry without looking for its record.
DeployAppsLoopNoSkip ==
    /\ pc = "apps_loop"
    /\ pending # <<>>
    /\ LET app == Head(pending)
       IN IF ~areDependenciesDeployed(app.DependsOn)
          THEN /\ DeployFails(Error("apps", app.Name,
                                    "dependencies are not yet deployed"))
               /\ UNCHANGED <<pending, deployments, containers, trace>>
          ELSE \E env \in DeployEnvs :
                  LET r == deployApp(app, env)
                  IN /\ ApplyDeploy(app, r)
                     /\ IF r.err = "nil"
                        THEN /\ pending' = Tail(pending)
                             /\ UNCHANGED <<pc, deployErr>>
                        ELSE /\ DeployFails(Error("apps", app.Name, r.err))
                             /\ UNCHANGED pending
    /\ UNCHANGED <<config, proxyContainerID, rollbackErrors, rollbackErr,
                   registeredAtRollback, exitCode>>
    /\ DeployCtxKept
    /\ UNCHANGED <<signalled, callVars>>

\* One iteration of the loop of deployApps (manager.go 200-215).
DeployAppsLoop ==
    /\ pc = "apps_loop"
    /\ pending # <<>>
    /\ LET app == Head(pending)
       IN IF app.Name \in DOMAIN deployments
          THEN /\ pending' = Tail(pending)
               /\ UNCHANGED <<pc, deployErr, deployments, containers, trace>>
          ELSE IF ~areDependenciesDeployed(app.DependsOn)
          THEN /\ DeployFails(Error("apps", app.Name,
                                    "dependencies are not yet deployed"))
               /\ UNCHANGED <<pending, deployments, containers, trace>>
          ELSE \E env \in DeployEnvs :
                  LET r == deployApp(app, env)
                  IN /\ ApplyDeploy(app, r)
                     /\ IF r.err = "nil"
                        THEN /\ pending' = Tail(pending)
                             /\ UNCHANGED <<pc, deployErr>>
                        ELSE /\ DeployFails(Error("apps", app.Name, r.err))
                             /\ UNCHANGED pending
    /\ UNCHANGED <<config, proxyContainerID, rollbackErrors, rollbackErr,
                   registeredAtRollback, exitCode>>
    /\ DeployCtxKept
    /\ UNCHANGED <<signalled, callVars>>

\* deployApps returns nil (manager.go 217) and Deploy goes on to the proxy.
DeployAppsDone ==
    /\ pc = "apps_loop"
    /\ pending = <<>>
    /\ pc' = "proxy"
    /\ UNCHANGED <<config, pending, deployments, containers, proxyContainerID,
                   deployErr, rollbackErrors, rollbackErr, registeredAtRollback,
                   trace, exitCode>>
    /\ DeployCtxKept
    /\ UNCHANGED <<signalled, callVars>>

\* ------------------------------------------------- proxy/manager.go

\* What generateConfig, which takes no context, and the runtime answer during
\* one proxy.Setup call.
ProxyEnvs ==
    [configOk : BOOLEAN, createOk : Answers(DeployCtxDone),
     startOk : Answers(DeployCtxDone)]

\* startProxyContainer (proxy/manager.go 484-495): the calls made, the state
\* the proxy container is left in, the id returned ("" with an error).
startProxyContainer(env) ==
    LET create == Call("create", ProxyName, env.createOk)
        start  == Call("start", ProxyName, env.startOk)
    IN IF ~env.createOk
       THEN [err |-> "failed to create proxy container", calls |-> <<create>>,
             container |-> "none", containerID |-> NoName]
       ELSE IF ~env.startOk
       THEN [err |-> "failed to start proxy container", calls |-> <<create, start>>,
             container |-> "created", containerID |-> NoName]
       ELSE [err |-> "nil", calls |-> <<create, start>>,
             container |-> "running", containerID |-> ProxyName]

\* proxy.Manager.Setup (proxy/manager.go 38-59): m.containerID is assigned
\* only when startProxyContainer returned no error.
ProxySetup(env) ==
    LET generate == Call("proxyconfig", NoName, env.configOk)
        started  == startProxyContainer(env)
    IN IF ~env.configOk
       THEN [err |-> "failed to generate proxy configuration",
             calls |-> <<generate>>,
             container |-> "none", containerID |-> NoName]
       ELSE [started EXCEPT !.calls = <<generate>> \o @]

\* proxy.Manager.Cleanup (proxy/manager.go 498-518): with a stored container
\* id it stops and then removes the container, going on after a failed stop;
\* it always returns nil.
ProxyCleanup(stopOk, removeOk) ==
    IF proxyContainerID # NoName
    THEN [calls |-> <<Call("stop", ProxyName, stopOk),
                      Call("remove", ProxyName, removeOk)>>,
          container |-> IF removeOk THEN "none"
                        ELSE IF stopOk THEN "stopped"
                        ELSE containers[ProxyName]]
    ELSE [calls |-> <<>>, container |-> containers[ProxyName]]

\* m.proxy.Setup and Deploy's return (manager.go 108-114); after a nil return
\* main goes on to the external verification (main.go 60-62).
DeployProxy ==
    /\ pc = "proxy"
    /\ \E env \in ProxyEnvs :
          LET r == ProxySetup(env)
          IN /\ trace' = trace \o r.calls
             /\ containers' = IF r.container = "none" THEN containers
                              ELSE [containers EXCEPT ![ProxyName] = r.container]
             /\ proxyContainerID' = IF r.err = "nil" THEN r.containerID
                                    ELSE proxyContainerID
             /\ IF r.err = "nil"
                THEN deployErr' = NoError /\ pc' = "verify"
                ELSE DeployFails(Error("proxy", NoName, r.err))
    /\ UNCHANGED <<config, pending, deployments, rollbackErrors, rollbackErr,
                   registeredAtRollback, exitCode>>
    /\ DeployCtxKept
    /\ UNCHANGED <<signalled, callVars>>

\* ------------------------------------------------- manager.go: Rollback

\* A rollbackDeployment that deletes the record whatever stop and remove
\* returned.
rollbackDeploymentAlwaysDelete(deployment, stopOk, removeOk) ==
    LET stop   == Call("stop", deployment.ContainerID, stopOk)
        remove == Call("remove", deployment.ContainerID, removeOk)
    IN IF ~stopOk
       THEN [err |-> "failed to stop container", calls |-> <<stop>>,
             container |-> containers[deployment.ContainerID], deleted |-> TRUE]
       ELSE IF ~removeOk
       THEN [err |-> "failed to remove container", calls |-> <<stop, remove>>,
             container |-> "stopped", deleted |-> TRUE]
       ELSE [err |-> "nil", calls |-> <<stop, remove>>,
             container |-> "none", deleted |-> TRUE]

\* A rollbackDeployment that goes on to the removal when the stop failed.
rollbackDeploymentRemoveAnyway(deployment, stopOk, removeOk) ==
    LET stop   == Call("stop", deployment.ContainerID, stopOk)
        remove == Call("remove", deployment.ContainerID, removeOk)
    IN IF ~removeOk
       THEN [err |-> "failed to remove container", calls |-> <<stop, remove>>,
             container |-> IF stopOk THEN "stopped"
                           ELSE containers[deployment.ContainerID],
             deleted |-> FALSE]
       ELSE [err |-> IF stopOk THEN "nil" ELSE "failed to stop container",
             calls |-> <<stop, remove>>, container |-> "none", deleted |-> TRUE]

\* rollbackDeployment (manager.go 417-436): the calls made, the state the
\* container is left in, whether the record was deleted, the error.
rollbackDeployment(deployment, stopOk, removeOk) ==
    LET stop   == Call("stop", deployment.ContainerID, stopOk)
        remove == Call("remove", deployment.ContainerID, removeOk)
    IN IF ~stopOk
       THEN [err |-> "failed to stop container", calls |-> <<stop>>,
             container |-> containers[deployment.ContainerID], deleted |-> FALSE]
       ELSE IF ~removeOk
       THEN [err |-> "failed to remove container", calls |-> <<stop, remove>>,
             container |-> "stopped", deleted |-> FALSE]
       ELSE [err |-> "nil", calls |-> <<stop, remove>>,
             container |-> "none", deleted |-> TRUE]

\* reverseServices (manager.go 457-463).
reverseServices(services) == Reverse(services)

\* The body of both loops of Rollback (manager.go 131-136, 142-147) for the
\* list entry unit.
RollbackUnit(unit) ==
    IF unit.Name \in DOMAIN deployments
    THEN \E stopOk \in Answers(RootCtxDone), removeOk \in Answers(RootCtxDone) :
            LET deployment == deployments[unit.Name]
                r == rollbackDeployment(deployment, stopOk, removeOk)
            IN /\ trace' = trace \o r.calls
               /\ containers' = [containers EXCEPT
                                    ![deployment.ContainerID] = r.container]
               /\ deployments' =
                     IF r.deleted
                     THEN [n \in DOMAIN deployments \ {deployment.Name} |->
                              deployments[n]]
                     ELSE deployments
               /\ rollbackErrors' =
                     IF r.err = "nil" THEN rollbackErrors ELSE rollbackErrors + 1
    ELSE UNCHANGED <<trace, containers, deployments, rollbackErrors>>

\* Rollback up to its first loop (manager.go 118-127): the proxy cleanup, whose
\* error is only logged.
RollbackStart ==
    /\ pc = "rollback"
    /\ \E stopOk \in Answers(RootCtxDone), removeOk \in Answers(RootCtxDone) :
          LET r == ProxyCleanup(stopOk, removeOk)
          IN /\ trace' = Append(trace, Call("cleanup", NoName, TRUE)) \o r.calls
             /\ containers' = [containers EXCEPT ![ProxyName] = r.container]
    /\ registeredAtRollback' = DOMAIN deployments
    /\ rollbackErrors' = 0
    /\ pending' = config.Apps
    /\ pc' = "rollback_apps"
    /\ UNCHANGED <<config, deployments, proxyContainerID, deployErr, rollbackErr,
                   exitCode>>
    /\ UNCHANGED <<signalled, timedOut, callVars>>

\* An apps loop of Rollback that passes over the apps without tearing them
\* down.
RollbackAppsSkip ==
    /\ pc = "rollback_apps"
    /\ pending # <<>>
    /\ pending' = Tail(pending)
    /\ UNCHANGED <<config, pc, proxyContainerID, deployErr, rollbackErr,
                   registeredAtRollback, exitCode, trace, containers, deployments,
                   rollbackErrors>>
    /\ UNCHANGED <<signalled, timedOut, callVars>>

\* One iteration of the apps loop of Rollback (manager.go 130-137).
RollbackApps ==
    /\ pc = "rollback_apps"
    /\ pending # <<>>
    /\ RollbackUnit(Head(pending))
    /\ pending' = Tail(pending)
    /\ UNCHANGED <<config, pc, proxyContainerID, deployErr, rollbackErr,
                   registeredAtRollback, exitCode>>
    /\ UNCHANGED <<signalled, timedOut, callVars>>

\* The apps loop ends and the services loop starts (manager.go 140).
RollbackAppsDone ==
    /\ pc = "rollback_apps"
    /\ pending = <<>>
    /\ pending' = reverseServices(config.Services)
    /\ pc' = "rollback_services"
    /\ UNCHANGED <<config, deployments, containers, proxyContainerID, deployErr,
                   rollbackErrors, rollbackErr, registeredAtRollback, trace, exitCode>>
    /\ UNCHANGED <<signalled, timedOut, callVars>>

\* A services loop of Rollback that ends at the first failed teardown.
RollbackServicesAbort ==
    /\ pc = "rollback_services"
    /\ pending # <<>>
    /\ RollbackUnit(Head(pending))
    /\ pending' = IF rollbackErrors' # rollbackErrors THEN <<>> ELSE Tail(pending)
    /\ UNCHANGED <<config, pc, proxyContainerID, deployErr, rollbackErr,
                   registeredAtRollback, exitCode>>
    /\ UNCHANGED <<signalled, timedOut, callVars>>

\* One iteration of the services loop of Rollback (manager.go 141-148).
RollbackServices ==
    /\ pc = "rollback_services"
    /\ pending # <<>>
    /\ RollbackUnit(Head(pending))
    /\ pending' = Tail(pending)
    /\ UNCHANGED <<config, pc, proxyContainerID, deployErr, rollbackErr,
                   registeredAtRollback, exitCode>>
    /\ UNCHANGED <<signalled, timedOut, callVars>>

\* A Rollback that reports that teardowns failed, not how many.
RollbackReturnFlag ==
    /\ pc = "rollback_services"
    /\ pending = <<>>
    /\ rollbackErr' = IF rollbackErrors > 0 THEN 1 ELSE 0
    /\ exitCode' = 1
    /\ pc' = "exit"
    /\ UNCHANGED <<config, pending, deployments, containers, proxyContainerID,
                   deployErr, rollbackErrors, registeredAtRollback, trace>>
    /\ UNCHANGED <<signalled, timedOut, callVars>>

\* Rollback returns (manager.go 150-155): nil, or "rollback completed with
\* <len(errors)> errors"; main then exits with status 1 (main.go 54-57).
RollbackReturn ==
    /\ pc = "rollback_services"
    /\ pending = <<>>
    /\ rollbackErr' = rollbackErrors
    /\ exitCode' = 1
    /\ pc' = "exit"
    /\ UNCHANGED <<config, pending, deployments, containers, proxyContainerID,
                   deployErr, rollbackErrors, registeredAtRollback, trace>>
    /\ UNCHANGED <<signalled, timedOut, callVars>>

\* ------------------------------------------------- main.go: after Deploy

\* The URLs VerifyExternalAccess may check: each app's main URL and its health
\* URL.
UrlKinds == {"main", "health"}

UrlAnswers(ctxDone) == [(1..Len(AppNames)) \X UrlKinds -> Answers(ctxDone)]

\* The health path of an app (external.go 67-71).
healthPath(app) ==
    IF app.HealthCheck.Type = "http" /\ app.HealthCheck.Path # ""
    THEN app.HealthCheck.Path
    ELSE "/"

\* A loop over the apps that goes on to the next URL after a failed check and
\* returns an error at the end if a check failed.
RECURSIVE verifyAppsKeepGoing(_, _, _, _)
verifyAppsKeepGoing(apps, i, urlOk, calls) ==
    IF i > Len(apps)
    THEN [err |-> IF \A k \in 1..Len(calls) : calls[k].ok
                  THEN "nil" ELSE "external verification failed",
          calls |-> calls]
    ELSE LET app == apps[i]
             main == Call("endpoint", app.Name, urlOk[<<i, "main">>])
             health == Call("healthendpoint", app.Name, urlOk[<<i, "health">>])
         IN IF healthPath(app) # "/" /\ healthPath(app) # ""
            THEN verifyAppsKeepGoing(apps, i + 1, urlOk, calls \o <<main, health>>)
            ELSE verifyAppsKeepGoing(apps, i + 1, urlOk, calls \o <<main>>)

\* The loop over config.Apps of ExternalVerifier.VerifyExternalAccess
\* (external.go 53-86), from app i on: the checkEndpoint calls made, each with
\* whether it returned nil, and the error returned.
RECURSIVE verifyApps(_, _, _, _)
verifyApps(apps, i, urlOk, calls) ==
    IF i > Len(apps) THEN [err |-> "nil", calls |-> calls]
    ELSE LET app == apps[i]
             main == Call("endpoint", app.Name, urlOk[<<i, "main">>])
             health == Call("healthendpoint", app.Name, urlOk[<<i, "health">>])
         IN IF ~main.ok
            THEN [err |-> "external verification failed", calls |-> calls \o <<main>>]
            ELSE IF healthPath(app) # "/" /\ healthPath(app) # ""
            THEN IF ~health.ok
                 THEN [err |-> "health check verification failed",
                       calls |-> calls \o <<main, health>>]
                 ELSE verifyApps(apps, i + 1, urlOk, calls \o <<main, health>>)
            ELSE verifyApps(apps, i + 1, urlOk, calls \o <<main>>)

\* Manager.VerifyExternalAccess (manager.go 466-480) over
\* ExternalVerifier.VerifyExternalAccess (external.go 43-90): the call itself
\* is recorded last, with whether it returned nil.
verifyExternalAccess(cfg, urlOk) ==
    LET r == verifyApps(cfg.Apps, 1, urlOk, <<>>)
    IN [err |-> r.err,
        calls |-> Append(r.calls, Call("verify", NoName, r.err = "nil"))]

\* A main that exits with status 1 when the external verification failed.
VerifyExternalAccessFatal ==
    /\ pc = "verify"
    /\ \E urlOk \in UrlAnswers(RootCtxDone) :
          LET r == verifyExternalAccess(config, urlOk)
          IN /\ trace' = trace \o r.calls
             /\ exitCode' = IF r.err = "nil" THEN 0 ELSE 1
    /\ pc' = "exit"
    /\ UNCHANGED <<config, pending, deployments, containers, proxyContainerID,
                   deployErr, rollbackErrors, rollbackErr, registeredAtRollback>>
    /\ UNCHANGED <<signalled, timedOut, callVars>>

\* VerifyExternalAccess and main's return (main.go 60-71): the outcome of the
\* verification is logged and main returns, so the exit status is 0.  The
\* checks are handed main's context and fail once it is cancelled.
VerifyExternalAccess ==
    /\ pc = "verify"
    /\ \E urlOk \in UrlAnswers(RootCtxDone) :
          trace' = trace \o verifyExternalAccess(config, urlOk).calls
    /\ exitCode' = 0
    /\ pc' = "exit"
    /\ UNCHANGED <<config, pending, deployments, containers, proxyContainerID,
                   deployErr, rollbackErrors, rollbackErr, registeredAtRollback>>
    /\ UNCHANGED <<signalled, timedOut, callVars>>

Next ==
    \/ Load
    \/ Signal
    \/ SignalExit
    \/ Timeout
    \/ DeployNetwork
    \/ DeploySSL
    \/ DeployServicesResolve
    \/ DeployServicesLoop
    \/ DeployServicesDone
    \/ DeployAppsResolve
    \/ DeployAppsLoop
    \/ DeployAppsDone
    \/ DeployProxy
    \/ RollbackStart
    \/ RollbackApps
    \/ RollbackAppsDone
    \/ RollbackServices
    \/ RollbackReturn
    \/ VerifyExternalAccess

Spec == Init /\ [][Next]_vars

\* ------------------------------------------ the resolver called on its own

\* resolveDependencyOrder's callers pass one dependencies entry per name.
ResolverInputs ==
    UNION {{[names |-> ns, dependencies |-> ds] :
               ds \in [Range(ns) -> DistinctSeqs(NodeNames, MaxDeps)]} :
           ns \in DistinctSeqs(NodeNames, Cardinality(NodeNames))}

RunIdle ==
    /\ config = EmptyConfig
    /\ pc = "idle"
    /\ pending = <<>>
    /\ deployments = EmptyRegistry
    /\ containers = [n \in ContainerNames |-> "none"]
    /\ proxyContainerID = NoName
    /\ deployErr = NotReturned
    /\ rollbackErrors = 0
    /\ rollbackErr = RollbackNotReturned
    /\ registeredAtRollback = {}
    /\ trace = <<>>
    /\ exitCode = NoExit
    /\ signalled = FALSE
    /\ timedOut = FALSE

InitResolve ==
    /\ \E in \in ResolverInputs :
          /\ names = in.names
          /\ dependencies = in.dependencies
    /\ resolved = NoResult
    /\ resolverPc = "input"
    /\ RunIdle
    /\ CheckIdle
    /\ EndpointIdle

\* One call of resolveDependencyOrder (dependencies.go 67-121).
Resolve ==
    /\ resolverPc = "input"
    /\ resolved' = resolveDependencyOrder(names, dependencies)
    /\ resolverPc' = "returned"
    /\ UNCHANGED <<names, dependencies>>
    /\ UNCHANGED <<runVars, checkVars, endpointVars>>

NextResolve == Resolve

SpecResolve == InitResolve /\ [][NextResolve]_vars

\* ------------------------------------------ the health gate called on its own

\* The arguments of one Check call: the options a configuration can carry, the
\* outcome each probe would have, and the step during which the context is
\* cancelled.
CheckInputs ==
    [options : [Type : {"http", "tcp", "custom"},
                Retries : 0..MaxCheckRetries,
                StartPeriod : {0, 1}],
     responses : [1..MaxCheckRetries -> ProbeResponses],
     cancelAt : 0..MaxCheckSteps]

\* Whether the probe of each attempt returns nil, given what the port answers.
InputProbeOk ==
    [i \in 1..MaxCheckRetries |->
        probeReturnsNil(checkInput.options.Type, checkInput.responses[i])]

InitCheck ==
    /\ checkInput \in CheckInputs
    /\ checkResult = NoCheckResult
    /\ ResolverIdle
    /\ RunIdle
    /\ EndpointIdle

\* One call of Checker.Check (part_000 142-203).
CheckCall ==
    /\ checkResult = NoCheckResult
    /\ checkResult' = Check(checkInput.options, InputProbeOk, checkInput.cancelAt)
    /\ UNCHANGED checkInput
    /\ UNCHANGED <<resolverVars, runVars, endpointVars>>

NextCheck == CheckCall

SpecCheck == InitCheck /\ [][NextCheck]_vars

\* ------------------------------------- the endpoint check called on its own

\* The arguments of one main-URL check: the app and its URL, the outcome each
\* request would have, and the step during which the context is cancelled.
EndpointInputs ==
    [app : Range(AppNames),
     url : Urls,
     responses : [1..MaxAttempts -> Responses],
     cancelAt : 0..MaxEndpointSteps]

InitEndpoint ==
    /\ endpointInput \in EndpointInputs
    /\ endpointResult = NoEndpointResult
    /\ ResolverIdle
    /\ RunIdle
    /\ CheckIdle

\* One check of an app's main URL (external.go 74-77, 93-136).
EndpointCall ==
    /\ endpointResult = NoEndpointResult
    /\ endpointResult' = VerifyMainUrl(endpointInput.app, endpointInput.url,
                                       endpointInput.responses,
                                       endpointInput.cancelAt)
    /\ UNCHANGED endpointInput
    /\ UNCHANGED <<resolverVars, runVars, checkVars>>

NextEndpoint == EndpointCall

SpecEndpoint == InitEndpoint /\ [][NextEndpoint]_vars

\* ------------------------------------------------ graph notions (claims)

\* The names reachable from the set S along at most k dependency edges.
RECURSIVE ReachFrom(_, _, _)
ReachFrom(deps, S, k) ==
    IF k = 0 THEN S
    ELSE ReachFrom(deps, S \cup UNION {Range(DepsOf(deps, x)) : x \in S}, k - 1)

AllNames == NodeNames \cup UnitNames

\* The transitive dependencies of n.
TransDeps(deps, n) ==
    ReachFrom(deps, Range(DepsOf(deps, n)), Cardinality(AllNames))

OnCycle(deps, n) == n \in TransDeps(deps, n)

HasCycle(deps) == \E n \in DOMAIN deps : OnCycle(deps, n)

\* Every dependency names a key of the map.
Closed(deps) == \A n \in DOMAIN deps : Range(deps[n]) \subseteq DOMAIN deps

\* ------------------------------------------------------------ claims

\* Every name on the list `order` after all of its transitive dependencies
\* that are on the list.
DepsFirst(deps, order) ==
    \A i \in 1..Len(order), j \in 1..Len(order) :
        order[j] \in TransDeps(deps, order[i]) => j < i

\* C1: for an acyclic dependency graph over the unit names,
\* resolveDependencyOrder returns a sequence that holds each input name
\* exactly once and every name after all of its transitive dependencies.
C1_TopologicalOrder ==
    (resolverPc = "returned" /\ Closed(dependencies) /\ ~HasCycle(dependencies))
    => /\ resolved.ok
       /\ \A n \in Range(names) : Count(resolved.order, n) = 1
       /\ Range(resolved.order) = Range(names)
       /\ DepsFirst(dependencies, resolved.order)

\* C3: for an input whose dependency graph has a cycle, resolveDependencyOrder
\* returns the cycle error and the name in the error lies on a cycle.
C3_CycleDetected ==
    (resolverPc = "returned" /\ HasCycle(dependencies))
    => /\ ~resolved.ok
       /\ OnCycle(dependencies, resolved.cycleAt)

\* C3 witness: a cycle through two or more names was reported, next to names
\* that lie on no cycle.
C3_Witness ==
    /\ resolverPc = "returned"
    /\ ~resolved.ok
    /\ resolved.cycleAt \notin Range(DepsOf(dependencies, resolved.cycleAt))
    /\ \E n \in Range(names) : ~OnCycle(dependencies, n)
    /\ names[1] # resolved.cycleAt

\* --- the run: notions read off the trace of collaborator calls

\* The positions of the calls a step appends to the trace.
NewCalls == (Len(trace) + 1)..Len(trace')

\* The calls Deploy makes; a failed scan is logged and never returned.
DeployOps == {"network", "ssl", "pull", "scan", "create", "start", "health",
              "proxyconfig"}

TeardownOps == {"stop", "remove"}

\* Positions of the trace holding a call of Deploy that returned an error
\* which Deploy does not ignore.
FailedDeployCalls ==
    {i \in 1..Len(trace) :
        /\ trace[i].op \in DeployOps \ {"scan"}
        /\ ~trace[i].ok}

\* Positions of the trace holding a call of Deploy.
DeployCalls(t) == {i \in 1..Len(t) : t[i].op \in DeployOps}

\* The names given to the calls `op` of the trace, in call order.
RECURSIVE CalledNames(_, _)
CalledNames(t, op) ==
    IF t = <<>> THEN <<>>
    ELSE IF Head(t).op = op
    THEN <<Head(t).name>> \o CalledNames(Tail(t), op)
    ELSE CalledNames(Tail(t), op)

DeployReturned == deployErr # NotReturned

DeployFailed == deployErr.cause \notin {"running", "nil"}

RollbackReturned == rollbackErr # RollbackNotReturned

\* Every stop and remove call made so far returned without error.
TeardownCallsOk ==
    \A i \in 1..Len(trace) : trace[i].op \in TeardownOps => trace[i].ok

\* The units with a stop or remove call that returned an error.
TeardownFailed ==
    {n \in UnitNames :
        \E i \in 1..Len(trace) :
            /\ trace[i].op \in TeardownOps
            /\ trace[i].name = n
            /\ ~trace[i].ok}

\* Number of teardown attempts made for unit n: rollbackDeployment starts
\* with the stop call.
TeardownAttempts(n) ==
    Cardinality({i \in 1..Len(trace) : trace[i].op = "stop" /\ trace[i].name = n})

\* The configuration of C2: S1, S2 depending on S1, A1 depending on S2.
IsChainConfig ==
    /\ NamesOf(config.Services) = <<"S1", "S2">>
    /\ config.Services[1].DependsOn = <<>>
    /\ config.Services[2].DependsOn = <<"S1">>
    /\ NamesOf(config.Apps) = <<"A1">>
    /\ config.Apps[1].DependsOn = <<"S2">>

\* C2: with services S1 and S2 (depending on S1) and app A1 (depending on S2)
\* and every collaborator call succeeding, the resolved order is S1, S2 for the
\* services and A1 for the apps, and Deploy creates and starts the containers
\* in the order S1, S2, A1.
C2_ChainDeployOrder ==
    (/\ IsChainConfig
     /\ DeployReturned
     /\ \A i \in DeployCalls(trace) : trace[i].ok)
    => /\ NamesOf(resolveServiceDependencies(config.Services).units) = <<"S1", "S2">>
       /\ NamesOf(resolveAppDependencies(config.Apps).units) = <<"A1">>
       /\ SubSeq(CalledNames(trace, "create"), 1, 3) = <<"S1", "S2", "A1">>
       /\ SubSeq(CalledNames(trace, "start"), 1, 3) = <<"S1", "S2", "A1">>

\* The error Deploy returns for a failed call.
CauseOf(op) ==
    CASE op = "network" -> {"failed to setup Docker network"}
      [] op = "ssl" -> {"failed to setup SSL"}
      [] op = "pull" -> {"failed to pull image"}
      [] op = "create" -> {"failed to create container",
                           "failed to create proxy container"}
      [] op = "start" -> {"failed to start container",
                          "failed to start proxy container"}
      [] op = "health" -> {"health check failed", "unsupported health check type",
                           "context canceled"}
      [] op = "proxyconfig" -> {"failed to generate proxy configuration"}

\* Deploy returns the error of the first failed step, which is also the last
\* step it made.
FirstErrorReturned ==
    LET failed == FailedDeployCalls
    IN /\ Cardinality(failed) <= 1
       /\ \A i \in failed :
             /\ DeployFailed
             /\ \A j \in (i + 1)..Len(trace) : trace[j].op \notin DeployOps
             /\ deployErr.cause \in CauseOf(trace[i].op)
             /\ deployErr.unit \in {trace[i].name, NoName}
       /\ (DeployReturned /\ ~DeployFailed) => failed = {}

\* C4: Deploy is fail-fast: once a phase or a unit deploy inside a phase has
\* failed, no later unit deploy and no later phase is started, and Deploy
\* returns that first error.
C4_FailFast ==
    /\ []FirstErrorReturned
    /\ [][DeployFailed => /\ deployErr' = deployErr
                          /\ \A i \in NewCalls : trace'[i].op \notin DeployOps]_vars

\* C4 witness: a unit deploy failed after another unit was deployed and before
\* the units listed after it.
C4_Witness ==
    /\ DeployFailed
    /\ deployErr.unit # NoName
    /\ FailedDeployCalls # {}
    /\ deployErr.phase = "services"
    /\ DOMAIN deployments \ {deployErr.unit} # {}
    /\ config.Apps # <<>>
    /\ pc = "rollback"

\* The units whose health call returned an error.
HealthFailed ==
    {n \in UnitNames :
        \E i \in 1..Len(trace) :
            trace[i].op = "health" /\ trace[i].name = n /\ ~trace[i].ok}

\* The health check configured for unit n.
HealthCheckOf(n) ==
    LET units == config.Services \o config.Apps
    IN units[CHOOSE i \in 1..Len(units) : units[i].Name = n].HealthCheck

\* C5: if a unit's health gate fails after exhausting its retries, Deploy
\* returns an error wrapping the health-check failure, and a following Rollback
\* whose stop and remove calls all succeed removes every unit deployed so far,
\* the unit whose gate failed included: the registry is empty afterwards.
C5_HealthFailureRolledBack ==
    \A n \in HealthFailed :
        (HealthCheckOf(n).Type \in {"http", "tcp"} /\ deployErr.cause # "context canceled")
        => /\ deployErr.unit = n
           /\ deployErr.cause = "health check failed"
           /\ (RollbackReturned /\ TeardownCallsOk)
              => /\ n \in registeredAtRollback
                 /\ \A u \in registeredAtRollback :
                       \E i \in 1..Len(trace) :
                           trace[i] = Call("remove", u, TRUE)
                 /\ DOMAIN deployments = {}

\* C5 witness: a gate failed all its probes after another unit was deployed,
\* and the Rollback that followed returned without a failed stop or remove.
C5_Witness ==
    /\ RollbackReturned
    /\ \E n \in HealthFailed :
          /\ HealthCheckOf(n).Retries >= 1
          /\ HealthCheckOf(n).Type \in {"http", "tcp"}
          /\ registeredAtRollback \ {n} # {}
    /\ TeardownCallsOk
    /\ RollbackReturned

\* C6: Rollback never aborts early: every unit registered when Rollback
\* starts gets exactly one teardown attempt, whatever the other attempts and
\* the proxy cleanup returned, and no other unit gets one.
C6_OneAttemptEach ==
    RollbackReturned
    => \A n \in UnitNames :
          TeardownAttempts(n) = IF n \in registeredAtRollback THEN 1 ELSE 0

\* C6 witness: Rollback returned after a failed teardown that was followed by
\* the teardown attempt of another unit.
C6_Witness ==
    /\ RollbackReturned
    /\ \E i, j \in 1..Len(trace) :
          /\ i < j
          /\ trace[i].op \in TeardownOps /\ ~trace[i].ok
          /\ trace[j].op = "stop"
          /\ trace[j].name # trace[i].name

\* C7 as stated: when Rollback returns the registry is empty, whatever the
\* stop and remove calls returned.
C7_RegistryEmptyAfterRollback ==
    RollbackReturned => DOMAIN deployments = {}

\* C7 as amended: when Rollback returns, the registry holds exactly the units
\* registered at its start whose stop or remove failed; the records of all
\* others are cleared, and it is empty if no teardown failed.
C7_RegistryHoldsFailedTeardowns ==
    RollbackReturned
    => /\ DOMAIN deployments = registeredAtRollback \cap TeardownFailed
       /\ TeardownFailed \subseteq registeredAtRollback

\* C7 witness: Rollback returned having cleared one record and kept another.
C7_Witness ==
    /\ RollbackReturned
    /\ DOMAIN deployments # {}
    /\ registeredAtRollback \ DOMAIN deployments # {}

\* C8: Rollback returns success (no error, count 0) if and only if no unit
\* teardown failed, and otherwise an error whose count is the number of
\* registered units whose teardown failed.
C8_AggregateCount ==
    RollbackReturned
    => rollbackErr = Cardinality(registeredAtRollback \cap TeardownFailed)

\* C8 witness: Rollback returned an error counting two failed teardowns.
C8_Witness ==
    /\ RollbackReturned
    /\ rollbackErr = 2
    /\ Cardinality(registeredAtRollback) > 2

\* C9: after a failed Deploy and a Rollback whose stop and remove calls all
\* succeeded, no container created during the run, unit or proxy, is left.
C9_FullyReverted ==
    (pc = "exit" /\ DeployFailed /\ RollbackReturned /\ TeardownCallsOk)
    => \A n \in ContainerNames : containers[n] = "none"

\* C10: at every point of a run a record exists for a name if and only if the
\* container created for it is live and has not been rolled back; "live" read
\* as present on the host, or read as running.
C10_RecordIffLive ==
    \/ \A n \in UnitNames : n \in DOMAIN deployments <=> containers[n] # "none"
    \/ \A n \in UnitNames : n \in DOMAIN deployments <=> containers[n] = "running"

\* ------------------------------------------------ main's run (claims, ctd.)

\* The dependsOn list configured for unit n.
DependsOnOf(n) ==
    LET units == config.Services \o config.Apps
    IN units[CHOOSE i \in 1..Len(units) : units[i].Name = n].DependsOn

\* The positions of the calls op made for the name n.
CallsOf(t, op, n) == {i \in 1..Len(t) : t[i].op = op /\ t[i].name = n}

\* The position of the first call op made for the name n (0 if there is none).
FirstCall(t, op, n) ==
    IF CallsOf(t, op, n) = {} THEN 0
    ELSE CHOOSE i \in CallsOf(t, op, n) : \A j \in CallsOf(t, op, n) : i <= j

\* A step of main itself, not of the signal goroutine or of the timer of
\* Deploy's context.
MainStep ==
    /\ signalled' = signalled
    /\ pc' # "exit"
    /\ timedOut' => timedOut

\* C11: a step of Deploy that creates a unit's container finds a record for
\* every name in the unit's dependsOn; and when the unit a deploy loop has
\* reached is not registered and one of its dependencies has no record, the
\* loop makes no call for it and Deploy returns the dependency-not-deployed
\* error for that unit.
C11_DependenciesRegistered ==
    [][/\ \A i \in NewCalls :
             (trace'[i].op = "create" /\ trace'[i].name \in UnitNames)
             => Range(DependsOnOf(trace'[i].name)) \subseteq DOMAIN deployments
       /\ (/\ pc \in {"services_loop", "apps_loop"}
           /\ pending # <<>>
           /\ MainStep
           /\ Head(pending).Name \notin DOMAIN deployments
           /\ ~(Range(Head(pending).DependsOn) \subseteq DOMAIN deployments))
          => /\ deployErr'.cause = "dependencies are not yet deployed"
             /\ deployErr'.unit = Head(pending).Name
             /\ trace' = trace
             /\ containers' = containers
             /\ deployments' = deployments]_vars

\* C11 witness: the container of a unit with a dependency was created.
C11_Witness ==
    \E n \in UnitNames :
        /\ CallsOf(trace, "create", n) # {}
        /\ DependsOnOf(n) # <<>>
        /\ Range(DependsOnOf(n)) \subseteq DOMAIN deployments

\* The apps and the services registered when Rollback was entered.
RegisteredApps == registeredAtRollback \cap Range(AppNames)

RegisteredServices == registeredAtRollback \cap Range(ServiceNames)

\* C12: whenever Rollback starts the teardown of a service, the teardown of
\* every app that was registered at its start has been attempted.
C12_AppsBeforeServices ==
    \A j \in 1..Len(trace) :
        (trace[j].op = "stop" /\ trace[j].name \in Range(ServiceNames))
        => \A a \in RegisteredApps :
              \E i \in 1..(j - 1) : trace[i].op = "stop" /\ trace[i].name = a

\* C12 witness: Rollback tore down a registered app and then a registered
\* service.
C12_Witness ==
    /\ RollbackReturned
    /\ RegisteredApps # {}
    /\ \E n \in RegisteredServices : FirstCall(trace, "stop", n) # 0

\* Both units were registered when Rollback was entered and Rollback has
\* started the teardown of both.
BothTornDown(u, v) ==
    /\ u # v
    /\ {u, v} \subseteq registeredAtRollback
    /\ FirstCall(trace, "stop", u) # 0
    /\ FirstCall(trace, "stop", v) # 0

SameKind(u, v) ==
    \/ {u, v} \subseteq Range(ServiceNames)
    \/ {u, v} \subseteq Range(AppNames)

\* C13: of two registered units of the same kind, Rollback tears down first
\* the one that was deployed last, and a unit before a unit of its kind it
\* depends on.
C13_ReverseWithinKind ==
    \A u \in UnitNames, v \in UnitNames :
        (SameKind(u, v) /\ BothTornDown(u, v))
        => /\ (FirstCall(trace, "create", u) > FirstCall(trace, "create", v))
              => FirstCall(trace, "stop", u) < FirstCall(trace, "stop", v)
           /\ (v \in Range(DependsOnOf(u)))
              => FirstCall(trace, "stop", u) < FirstCall(trace, "stop", v)

\* main returned after the external verification.
VerifyReturned == \E i \in 1..Len(trace) : trace[i].op = "verify"

CheckReturned == checkResult # NoCheckResult

\* The steps of the returned Check call that are probes, and those that are
\* waits between two attempts.
ProbeSteps == {i \in 1..Len(checkResult.events) : checkResult.events[i].kind = "probe"}

IntervalWaits ==
    {i \in 1..Len(checkResult.events) :
        /\ checkResult.events[i].kind = "wait"
        /\ checkResult.events[i].what = "interval"}

WaitSteps == {i \in 1..Len(checkResult.events) : checkResult.events[i].kind = "wait"}

\* The context was not cancelled before the call returned.
CheckNotCancelled == checkInput.cancelAt > Len(checkResult.events)

\* Every probe of the call fails.
ProbeAlwaysFails ==
    \A i \in 1..checkInput.options.Retries : ~InputProbeOk[i]

\* C15: Check with retries = n >= 1 of a supported type, an uncancelled
\* context and a probe that always fails makes exactly n probes and exactly
\* n - 1 waits between attempts, then returns "health check failed" wrapping
\* the error of the last probe.
C15_ExhaustedRetries ==
    (/\ CheckReturned
     /\ checkInput.options.Retries >= 1
     /\ checkInput.options.Type \in {"http", "tcp"}
     /\ ProbeAlwaysFails
     /\ CheckNotCancelled)
    => /\ Cardinality(ProbeSteps) = checkInput.options.Retries
       /\ Cardinality(IntervalWaits) = checkInput.options.Retries - 1
       /\ checkResult.err = "health check failed"
       /\ checkResult.lastErr = checkInput.options.Retries
       /\ checkResult.events[Len(checkResult.events)] =
             Probe(checkInput.options.Type, FALSE)

\* C15 witness: three failed probes and two waits between them.
C15_Witness ==
    /\ CheckReturned
    /\ checkInput.options.Retries = MaxCheckRetries
    /\ checkInput.options.Type = "http"
    /\ ProbeAlwaysFails
    /\ CheckNotCancelled
    /\ Cardinality(ProbeSteps) = MaxCheckRetries
    /\ Cardinality(IntervalWaits) = MaxCheckRetries - 1

\* C16: Check returns nil exactly when a probe succeeded, that probe is the
\* last step of the call, and it is the first probe whose outcome was success;
\* with startPeriod = 0 and a first probe that succeeds the call has no wait.
C16_FirstSuccessReturns ==
    CheckReturned
    => /\ \A i \in ProbeSteps :
             checkResult.events[i].ok
             => /\ checkResult.err = "nil"
                /\ i = Len(checkResult.events)
       /\ (checkResult.err = "nil")
             => \E i \in ProbeSteps : checkResult.events[i].ok
       /\ (/\ checkInput.options.StartPeriod = 0
           /\ checkInput.options.Retries >= 1
           /\ checkInput.options.Type \in {"http", "tcp"}
           /\ InputProbeOk[1]
           /\ checkInput.cancelAt >= 1)
          => /\ checkResult.err = "nil"
             /\ WaitSteps = {}
             /\ Cardinality(ProbeSteps) = 1

\* C16 witness: a second probe succeeded while a third attempt and a third
\* successful outcome were still available.
C16_Witness ==
    /\ CheckReturned
    /\ checkResult.err = "nil"
    /\ Cardinality(ProbeSteps) = 2
    /\ checkInput.options.Retries = MaxCheckRetries
    /\ InputProbeOk[MaxCheckRetries]

\* C17: if the context is cancelled during (or before) a start-period wait or
\* a wait between attempts, Check returns the cancellation error, the
\* interrupted wait is the last step of the call and no probe follows it.
C17_CancelledWaitReturns ==
    CheckReturned
    => \A i \in WaitSteps :
          CtxDoneBy(checkInput.cancelAt, i)
          => /\ checkResult.err = "context canceled"
             /\ ~checkResult.events[i].ok
             /\ i = Len(checkResult.events)

\* C17 witness: the context was cancelled during the wait after a failed
\* probe, with attempts left.
C17_Witness ==
    /\ CheckReturned
    /\ checkResult.err = "context canceled"
    /\ Len(checkResult.events) >= 2
    /\ checkInput.cancelAt = Len(checkResult.events)
    /\ checkResult.events[Len(checkResult.events)] = Wait("interval", FALSE)
    /\ Cardinality(ProbeSteps) < checkInput.options.Retries

\* ------------------------------------------- the endpoint check (claims)

EndpointReturned == endpointResult # NoEndpointResult

AttemptSteps ==
    {i \in 1..Len(endpointResult.events) : endpointResult.events[i].kind = "attempt"}

SleepSteps ==
    {i \in 1..Len(endpointResult.events) : endpointResult.events[i].kind = "sleep"}

\* The durations of the sleeps of the returned check, in order.
RECURSIVE SleepDurations(_)
SleepDurations(events) ==
    IF events = <<>> THEN <<>>
    ELSE IF Head(events).kind = "sleep"
    THEN <<Head(events).d>> \o SleepDurations(Tail(events))
    ELSE SleepDurations(Tail(events))

\* Every attempt the check could make was made and failed.
AllAttemptsFailed ==
    /\ Cardinality(AttemptSteps) = MaxAttempts
    /\ \A i \in AttemptSteps : ~endpointResult.events[i].ok

\* C18: if the context is cancelled while checkEndpoint is in a backoff wait,
\* after whichever failed attempt, the wait ends there and then and the check
\* returns the cancellation error, not the verification-failed error.
C18_CancelledBackoffReturns ==
    EndpointReturned
    => \A i \in SleepSteps :
          endpointInput.cancelAt = i
          => /\ endpointResult.err.cause = "context canceled"
             /\ ~endpointResult.events[i].ok
             /\ i = Len(endpointResult.events)

\* C19: with initialWait = 3s the waits of a check whose attempts all fail are
\* 3s, 4.5s, 6.75s and 10.125s, each one and a half times the one before.
C19_BackoffSequence ==
    (EndpointReturned /\ AllAttemptsFailed)
    => SleepDurations(endpointResult.events) =
          <<3 * Second, (9 * Second) \div 2, (27 * Second) \div 4,
            (81 * Second) \div 8>>

\* C20: a check makes at most 5 attempts; when 5 attempts were made and all
\* failed, the verification returns a failure that names the URL and the
\* attempts made; an attempt answered with a 2xx status is the last step of the
\* check, which then returns nil.
C20_AttemptsBounded ==
    EndpointReturned
    => /\ Cardinality(AttemptSteps) <= 5
       /\ AllAttemptsFailed
          => /\ endpointResult.err.msg = "external verification failed"
             /\ endpointResult.err.cause = "endpoint verification failed after attempts"
             /\ endpointResult.err.url = endpointInput.url
             /\ endpointResult.err.attempts = Cardinality(AttemptSteps)
       /\ \A i \in AttemptSteps :
             endpointResult.events[i].ok
             => /\ endpointResult.err = NilError
                /\ i = Len(endpointResult.events)

\* C20 witness: five attempts, transport errors and non-2xx statuses among
\* them, all failed and the failure was returned.
C20_Witness ==
    /\ EndpointReturned
    /\ AllAttemptsFailed
    /\ \E i \in AttemptSteps : endpointResult.events[i].response = "transport"
    /\ \E i \in AttemptSteps : endpointResult.events[i].response = "non2xx"
    /\ endpointResult.err.attempts = MaxAttempts

\* ---------------------------------------------- main's run (claims, ctd. 2)

\* The calls of Deploy that are handed its context and observe it.
CtxOps == {"network", "pull", "scan", "create", "start", "health"}

\* A step of Deploy taken after the timeout of its context has fired.
StepAfterTimeout == timedOut /\ pc \in DeployPcs /\ MainStep

\* C24: once the deployment timeout has fired, every container-runtime call
\* and every health gate Deploy still makes fails with the cancellation, so
\* Deploy creates no container, registers no further unit and, when it
\* returns, returns an error that sends main to Rollback.  (The certificate
\* setup and the writing of the proxy configuration are handed the context
\* but do no cancellable work; the runtime calls that follow them fail.)
C24_TimeoutStopsDeploy ==
    [][StepAfterTimeout
       => /\ \A i \in NewCalls : trace'[i].op \in CtxOps => ~trace'[i].ok
          /\ \A i \in NewCalls : trace'[i].op \in DeployOps
          /\ DOMAIN deployments' = DOMAIN deployments
          /\ containers' = containers
          /\ (pc' \notin DeployPcs)
             => /\ pc' = "rollback"
                /\ deployErr'.cause \notin {"running", "nil"}]_vars

\* C24 witness: the timeout has fired, without a signal, while Deploy was in a
\* loop with a unit deployed and a unit left to deploy.
C24_Witness ==
    /\ timedOut
    /\ ~signalled
    /\ pc \in {"services_loop", "apps_loop"}
    /\ DOMAIN deployments # {}
    /\ pending # <<>>
    /\ Head(pending).Name \notin DOMAIN deployments

\* The units of the configuration, services first.
UnitsOf(cfg) == cfg.Services \o cfg.Apps

DeclaredNames(cfg) == Range(NamesOf(UnitsOf(cfg)))

\* Some dependsOn list names a unit the configuration does not declare.
HasUndeclaredDep ==
    LET units == UnitsOf(config)
        declared == DeclaredNames(config)
    IN \E i \in 1..Len(units) :
          \E k \in 1..Len(units[i].DependsOn) : units[i].DependsOn[k] \notin declared

\* No dependsOn list names a unit that is declared where Validate does not
\* look for it (a unit declared later, or an app named by a service).
NoMisplacedDep ==
    /\ \A i \in 1..Len(config.Services) :
          Range(config.Services[i].DependsOn) \cap DeclaredNames(config)
              \subseteq {config.Services[j].Name : j \in 1..i}
    /\ \A i \in 1..Len(config.Apps) :
          Range(config.Apps[i].DependsOn) \cap DeclaredNames(config)
              \subseteq Range(NamesOf(config.Services))
                        \cup {config.Apps[j].Name : j \in 1..i}

DependencyMessages ==
    {"service depends on undefined service",
     "app depends on undefined service or app"}

ResolveCauses ==
    {"failed to resolve service dependencies", "failed to resolve app dependencies"}

C23_ScanNeverAborts ==
    \A i \in 1..Len(trace) :
        trace[i].op = "scan"
        => /\ i < Len(trace)
           /\ trace[i + 1].op = "create"
           /\ trace[i + 1].name = trace[i].name
           /\ trace[i + 1].ok
              => /\ i + 1 < Len(trace)
                 /\ trace[i + 2].op = "start"
                 /\ trace[i + 2].name = trace[i].name

\* C23 witness: a unit whose scan failed was created, started, registered and
\* passed its health gate.
C23_Witness ==
    \E i \in 1..Len(trace) :
        /\ trace[i] = Call("scan", trace[i].name, FALSE)
        /\ i + 3 <= Len(trace)
        /\ trace[i + 1] = Call("create", trace[i].name, TRUE)
        /\ trace[i + 2] = Call("start", trace[i].name, TRUE)
        /\ trace[i + 3] = Call("health", trace[i].name, TRUE)
        /\ trace[i].name \in DOMAIN deployments

\* The calls of one unit's deploy.
UnitOps == {"pull", "scan", "create", "start", "health"}

\* C29: the calls of a unit deploy come in the order pull, scan, create,
\* start, health gate, each made only if the one before it (the scan excepted)
\* succeeded; a record is inserted only in a step that started the unit's
\* container, and it is in the registry whenever the unit's health gate has
\* run in that step, whatever the gate answered.
C29_UnitStepOrder ==
    [][/\ \A i \in NewCalls :
             LET c == trace'[i]
                 before == IF i > 1 THEN trace'[i - 1] ELSE Call("none", NoName, FALSE)
             IN /\ c.op = "scan" => before = Call("pull", c.name, TRUE)
                /\ c.op = "create" /\ c.name # ProxyName
                   => before.op = "scan" /\ before.name = c.name
                /\ c.op = "start" /\ c.name # ProxyName
                   => before = Call("create", c.name, TRUE)
                /\ c.op = "health"
                   => /\ before = Call("start", c.name, TRUE)
                      /\ c.name \in DOMAIN deployments'
                /\ c.op = "pull" => (i = Len(trace) + 1 /\ c.name \in UnitNames)
       /\ \A n \in DOMAIN deployments' \ DOMAIN deployments :
             \E i \in NewCalls : trace'[i] = Call("start", n, TRUE)]_vars

\* C29 witness: a unit went through pull, scan, create, start and a health
\* gate that failed, and its record is in the registry.
C29_Witness ==
    \E i \in 1..Len(trace) :
        /\ i + 4 <= Len(trace)
        /\ trace[i].op = "pull"
        /\ trace[i + 1].op = "scan"
        /\ trace[i + 2].op = "create"
        /\ trace[i + 3].op = "start"
        /\ trace[i + 4] = Call("health", trace[i].name, FALSE)
        /\ trace[i].name \in DOMAIN deployments

\* --- the health gate (claims, ctd.)

\* The number of the attempt that made the probe at step i of the call.
AttemptOf(i) == Cardinality({j \in ProbeSteps : j <= i})

\* C25: an HTTP probe counts as successful only if the response status is
\* 2xx.
C25_HttpProbe2xxOnly ==
    (CheckReturned /\ checkInput.options.Type = "http")
    => \A i \in ProbeSteps :
          checkResult.events[i].ok
          => checkInput.responses[AttemptOf(i)] \in 200..299

\* ---------------------------------------------- main's run (claims, ctd. 3)

\* The dependency graph of the whole configuration.
ConfigDependencies == DependencyMap(UnitsOf(config))

\* C26: for a configuration accepted by Validate whose dependency graph is
\* acyclic, when every collaborator operation and every health gate succeeds
\* the readiness re-check never fails: Deploy returns nil with every
\* configured unit registered.
C26_ValidAcyclicDeploys ==
    (/\ DeployReturned
     /\ ~HasCycle(ConfigDependencies)
     /\ \A i \in 1..Len(trace) : trace[i].op \in DeployOps => trace[i].ok)
    => /\ deployErr = NoError
       /\ DeclaredNames(config) \subseteq DOMAIN deployments

\* C27: resolveAppDependencies returns exactly one entry per configured app
\* and no other entry.
C27_OneEntryPerApp ==
    pc = "apps_loop"
    => LET r == resolveAppDependencies(config.Apps)
       IN /\ r.ok
          /\ Len(r.units) = Len(config.Apps)
          /\ \A i \in 1..Len(config.Apps) :
                Count(NamesOf(r.units), config.Apps[i].Name) = 1

\* The position of name n on the list order.
PositionOf(order, n) == CHOOSE i \in 1..Len(order) : order[i] = n

\* C28: the list resolveDependencyOrder returns is the reverse of a
\* completion list: it holds every visited name once, every name before each
\* of its dependencies, and its reverse holds the input names in input order
\* but for those completed earlier as a dependency of a name further to the
\* front of the input.
C28_ReversedCompletionOrder ==
    (resolverPc = "returned" /\ resolved.ok)
    => LET order == resolved.order
           completion == Reverse(order)
       IN /\ Range(order) =
                Range(names) \cup UNION {TransDeps(dependencies, n) : n \in Range(names)}
          /\ \A n \in Range(order) : Count(order, n) = 1
          /\ \A i \in 1..Len(order) :
                \A d \in Range(DepsOf(dependencies, order[i])) :
                    PositionOf(order, d) > i
          /\ \A i \in 1..Len(names), j \in 1..Len(names) :
                (/\ i < j
                 /\ \A k \in 1..(j - 1) :
                       names[j] \notin TransDeps(dependencies, names[k]))
                => PositionOf(completion, names[i]) < PositionOf(completion, names[j])

\* C28 witness: a list of three names was resolved in which the first name
\* depends on the last and the second on nothing.
C28_Witness ==
    /\ resolverPc = "returned"
    /\ resolved.ok
    /\ Len(names) = 3
    /\ DepsOf(dependencies, names[1]) = <<names[3]>>
    /\ DepsOf(dependencies, names[2]) = <<>>
    /\ DepsOf(dependencies, names[3]) = <<>>
    /\ resolved.order = <<names[2], names[1], names[3]>>

\* Unit n passed its health gate before call i.
HealthPassedBefore(n, i) ==
    \E j \in 1..(i - 1) : trace[j] = Call("health", n, TRUE)

\* The calls Deploy made for the proxy.
ProxyCalls ==
    {i \in 1..Len(trace) :
        \/ trace[i].op = "proxyconfig"
        \/ trace[i].op \in {"create", "start"} /\ trace[i].name = ProxyName}

\* The phase of Deploy that makes call c: the network setup, the certificate
\* setup, the services, the apps, the proxy setup.
PhaseOf(c) ==
    CASE c.op = "network" -> 1
      [] c.op = "ssl" -> 2
      [] c.op = "proxyconfig" \/ c.name = ProxyName -> 5
      [] c.name \in Range(ServiceNames) -> 3
      [] OTHER -> 4

\* C30: Deploy's first call is the network setup and nothing follows its
\* failure; the certificate setup is called, second, exactly when SSL is
\* enabled, and nothing follows its failure; the calls of Deploy come phase
\* by phase: network, certificates, services, apps, proxy; the first call for
\* an app comes only after every configured service has passed its health
\* gate, the first call for the proxy only after every configured unit has;
\* while Deploy is at its apps every service is registered, and at the proxy
\* every unit is.
C30_PhaseOrder ==
    [][/\ \A i \in NewCalls :
             LET t == trace'
             IN t[i].op \in DeployOps
                => /\ t[i].op = "network" <=> i = 1
                   /\ t[i].op = "ssl" => (config.SSLEnabled /\ i = 2)
                   /\ (i > 2 /\ config.SSLEnabled) => t[2] = Call("ssl", NoName, TRUE)
                   /\ i > 1
                      => /\ t[1].ok
                         /\ t[i - 1].op \in DeployOps
                         /\ PhaseOf(t[i - 1]) <= PhaseOf(t[i])
                         /\ (PhaseOf(t[i - 1]) < 4 /\ PhaseOf(t[i]) = 4)
                            => \A n \in Range(NamesOf(config.Services)) :
                                  HealthPassedBefore(n, i)
                         /\ (PhaseOf(t[i - 1]) < 5 /\ PhaseOf(t[i]) = 5)
                            => \A n \in DeclaredNames(config) :
                                  HealthPassedBefore(n, i)
       /\ (config.SSLEnabled /\ pc' \in DeployPcs \ {"network", "ssl"})
          => (Len(trace') >= 2 /\ trace'[2].op = "ssl")
       /\ pc' \in {"apps", "apps_loop"}
          => Range(NamesOf(config.Services)) \subseteq DOMAIN deployments'
       /\ pc' = "proxy" => DeclaredNames(config) \subseteq DOMAIN deployments']_vars

\* C30 witness: with SSL enabled, two services and two apps, the proxy was set
\* up and Deploy returned nil.
C30_Witness ==
    /\ config.SSLEnabled
    /\ Len(config.Services) = 2
    /\ Len(config.Apps) = 2
    /\ deployErr = NoError
    /\ proxyContainerID = ProxyName
    /\ ProxyCalls # {}

\* --- the external verification (claims)

EndpointOps == {"endpoint", "healthendpoint"}

EndpointCalls == {i \in 1..Len(trace) : trace[i].op \in EndpointOps}

\* The URLs VerifyExternalAccess has to check for the apps from the i-th on,
\* in the order of config.Apps, each app's main URL before its health URL.
RECURSIVE UrlsToVerify(_)
UrlsToVerify(i) ==
    IF i > Len(config.Apps) THEN <<>>
    ELSE <<[op |-> "endpoint", name |-> config.Apps[i].Name]>>
         \o (IF healthPath(config.Apps[i]) \notin {"/", ""}
             THEN <<[op |-> "healthendpoint", name |-> config.Apps[i].Name]>>
             ELSE <<>>)
         \o UrlsToVerify(i + 1)

\* C21: VerifyExternalAccess checks the URLs in the order of config.Apps (an
\* app's main URL, then its health URL), each at most once and each only
\* after every URL before it succeeded; the first URL whose check fails is
\* the last one checked and the verification returns an error, and it returns
\* nil only when every URL was checked and succeeded.
C21_VerifyFailsFast ==
    VerifyReturned
    => LET urls == UrlsToVerify(1)
           first == Len(trace) - Cardinality(EndpointCalls)
       IN /\ trace[Len(trace)].op = "verify"
          /\ Cardinality(EndpointCalls) <= Len(urls)
          /\ \A i \in EndpointCalls :
                /\ i >= first
                /\ trace[i].op = urls[i - first + 1].op
                /\ trace[i].name = urls[i - first + 1].name
                /\ ~trace[i].ok
                   => /\ i = Len(trace) - 1
                      /\ ~trace[Len(trace)].ok
          /\ trace[Len(trace)].ok
             => /\ Cardinality(EndpointCalls) = Len(urls)
                /\ \A i \in EndpointCalls : trace[i].ok
          /\ ~trace[Len(trace)].ok
             => \E i \in EndpointCalls : ~trace[i].ok

\* C21 witness: with two apps that have a health URL, the first app's main URL
\* succeeded, its health URL failed, and no URL of the second app was checked.
C21_Witness ==
    /\ VerifyReturned
    /\ ~signalled
    /\ Len(config.Apps) = 2
    /\ config.Apps[2].HealthCheck.Type = "http"
    /\ Cardinality(EndpointCalls) = 2
    /\ trace[Len(trace) - 2] = Call("endpoint", config.Apps[1].Name, TRUE)
    /\ trace[Len(trace) - 1] = Call("healthendpoint", config.Apps[1].Name, FALSE)
    /\ trace[Len(trace)] = Call("verify", NoName, FALSE)

\* ---------------------------------------------- main's run (claims, ctd. 4)

\* main is inside Rollback.
RollbackPcs == {"rollback", "rollback_apps", "rollback_services"}

\* The teardown calls of rollbackDeployment a step appends.
NewTeardownCalls ==
    {i \in NewCalls : trace'[i].op \in TeardownOps /\ trace'[i].name \in UnitNames}

\* C34: rollbackDeployment deletes a unit's record only in a step in which
\* the stop and then the removal of its container succeeded; after a failed
\* stop no removal is attempted and the record stays, and after a failed
\* removal the record stays.
C34_RecordDeletedAfterBoth ==
    [][/\ \A n \in DOMAIN deployments \ DOMAIN deployments' :
             trace' = trace \o <<Call("stop", n, TRUE), Call("remove", n, TRUE)>>
       /\ \A i \in NewTeardownCalls :
             LET c == trace'[i]
             IN /\ c.op = "remove" => (i > 1 /\ trace'[i - 1] = Call("stop", c.name, TRUE))
                /\ (c.op = "stop" /\ ~c.ok) => i = Len(trace')
                /\ (~c.ok /\ c.name \in DOMAIN deployments)
                   => /\ c.name \in DOMAIN deployments'
                      /\ deployments'[c.name] = deployments[c.name]]_vars

\* C34 witness: Rollback returned with a unit whose stop failed and a unit
\* whose removal failed, both still in the registry, and a unit whose record
\* was deleted.
C34_Witness ==
    /\ RollbackReturned
    /\ \E n \in DOMAIN deployments, m \in DOMAIN deployments :
          /\ n # m
          /\ \E i \in 1..Len(trace) : trace[i] = Call("stop", n, FALSE)
          /\ \E i \in 1..Len(trace) : trace[i] = Call("remove", m, FALSE)
    /\ registeredAtRollback \ DOMAIN deployments # {}

\* C38: after the timeout of Deploy's context has fired, and without a
\* signal, the context main passes to Rollback is not cancelled: the teardown
\* of a registered unit can still succeed and delete its record.
C38_TimeoutLocalToDeploy ==
    (timedOut /\ ~signalled /\ pc \in RollbackPcs)
    => /\ ~RootCtxDone
       /\ (/\ pc = "rollback_apps"
           /\ pending # <<>>
           /\ Head(pending).Name \in DOMAIN deployments)
          => ENABLED (RollbackApps /\ Head(pending).Name \notin DOMAIN deployments')
       /\ (/\ pc = "rollback_services"
           /\ pending # <<>>
           /\ Head(pending).Name \in DOMAIN deployments)
          => ENABLED (RollbackServices
                      /\ Head(pending).Name \notin DOMAIN deployments')

\* C38 witness: Deploy's timeout fired, no signal came, and Rollback returned
\* having torn down every unit that was registered.
C38_Witness ==
    /\ timedOut
    /\ ~signalled
    /\ RollbackReturned
    /\ Cardinality(registeredAtRollback) >= 2
    /\ DOMAIN deployments = {}
    /\ rollbackErr = 0

ZeroRetryUnits ==
    {UnitsOf(config)[i].Name :
        i \in {j \in 1..Len(UnitsOf(config)) :
                  UnitsOf(config)[j].HealthCheck.Retries <= 0}}

RecordOf(n) ==
    [Name |-> n, ContainerID |-> n,
     ServiceType |-> IF n \in Range(ServiceNames) THEN "service" ELSE "app",
     DependsOn |-> DependsOnOf(n)]

\* C31 as stated: a record is created exactly once per successful unit
\* deployment (in a step whose unit deploy succeeded, and never before),
\* is never mutated in place, and is removed exactly once on rollback (every
\* record is gone when Rollback has returned).
C31_RecordLifecycle ==
    [][/\ \A n \in DOMAIN deployments' \ DOMAIN deployments :
             /\ trace'[Len(trace')] = Call("health", n, TRUE)
             /\ CallsOf(trace, "start", n) = {}
       /\ \A n \in DOMAIN deployments' \cap DOMAIN deployments :
             deployments'[n] = deployments[n]
       /\ \A n \in DOMAIN deployments \ DOMAIN deployments' :
             \A i \in 1..Len(trace) : trace[i] # Call("remove", n, TRUE)
       /\ rollbackErr' # RollbackNotReturned => DOMAIN deployments' = {}]_vars

\* C31: a record is created at most once per unit in a run, in the step that
\* started the unit's container (so also when the health gate that follows
\* fails), and every successful unit deploy creates one; it is never mutated
\* in place; it is removed at most once, in a step of Rollback whose stop and
\* removal of the unit's container both succeeded, and stays in the registry
\* otherwise.
C31_RecordCreatedAndRemovedOnce ==
    [][/\ \A n \in DOMAIN deployments' \ DOMAIN deployments :
             /\ \E i \in NewCalls : trace'[i] = Call("start", n, TRUE)
             /\ CallsOf(trace, "start", n) = {}
             /\ deployments'[n] = RecordOf(n)
       /\ \A i \in NewCalls :
             (trace'[i].op = "health" /\ trace'[i].ok)
             => /\ trace'[i].name \notin DOMAIN deployments
                /\ trace'[i].name \in DOMAIN deployments'
       /\ \A n \in DOMAIN deployments' \cap DOMAIN deployments :
             deployments'[n] = deployments[n]
       /\ \A n \in DOMAIN deployments \ DOMAIN deployments' :
             /\ pc \in RollbackPcs
             /\ trace' = trace \o <<Call("stop", n, TRUE), Call("remove", n, TRUE)>>
             /\ \A i \in 1..Len(trace) : trace[i] # Call("remove", n, TRUE)
       /\ \A i \in NewTeardownCalls :
             (~trace'[i].ok /\ trace'[i].name \in DOMAIN deployments)
             => trace'[i].name \in DOMAIN deployments']_vars

\* C31 witness: Rollback returned after the record of one unit was removed,
\* the record of a unit whose teardown failed is still in the registry, and
\* the record of the unit whose health gate failed had been created.
C31_Witness ==
    /\ RollbackReturned
    /\ registeredAtRollback \ DOMAIN deployments # {}
    /\ DOMAIN deployments # {}
    /\ \E i \in 1..Len(trace) :
          /\ trace[i] = Call("health", trace[i].name, FALSE)
          /\ trace[i].name \in registeredAtRollback

\* Rollback has started: its first step, the proxy cleanup, was taken.
RollbackStarted == \E i \in 1..Len(trace) : trace[i].op = "cleanup"

\* C32: once main has started Rollback, every unit registered at that moment
\* gets its teardown attempt before the process exits, also when a signal is
\* handled by the signal goroutine.
C32_TeardownBeforeExit ==
    (pc = "exit" /\ RollbackStarted)
    => \A n \in registeredAtRollback : TeardownAttempts(n) >= 1

\* --- the health gate (claims, ctd. 2)

\* C33: Check called with a type other than http or tcp returns the
\* unsupported-type error at once, without any probe and without any retry
\* (no wait between attempts).
C33_UnsupportedTypeImmediate ==
    (/\ CheckReturned
     /\ checkInput.options.Type \notin {"http", "tcp"}
     /\ CheckNotCancelled)
    => /\ checkResult.err = "unsupported health check type"
       /\ ProbeSteps = {}
       /\ IntervalWaits = {}

\* --- the endpoint check (claims, ctd.)

\* C37: checkEndpoint waits after every failed attempt, the last one
\* included: a check whose 5 attempts all fail makes 5 waits, of 3s, 4.5s,
\* 6.75s, 10.125s and 15.1875s, the last of them after the fifth attempt,
\* and then returns the failure.
C37_WaitAfterLastAttempt ==
    EndpointReturned
    => /\ \A i \in AttemptSteps :
             ~endpointResult.events[i].ok
             => /\ i < Len(endpointResult.events)
                /\ endpointResult.events[i + 1].kind = "sleep"
                /\ endpointResult.events[i + 1].n = endpointResult.events[i].n
       /\ AllAttemptsFailed
          => /\ Cardinality(SleepSteps) = 5
             /\ SleepDurations(endpointResult.events) =
                   <<3 * Second, (9 * Second) \div 2, (27 * Second) \div 4,
                     (81 * Second) \div 8, (243 * Second) \div 16>>
             /\ endpointResult.events[Len(endpointResult.events)] =
                   Sleep(MaxAttempts, (243 * Second) \div 16)
             /\ endpointResult.err.cause =
                   "endpoint verification failed after attempts"

\* C37 witness: the fifth attempt failed like the four before it, the check
\* waited 15.1875s after it and returned the failure.
C37_Witness ==
    /\ EndpointReturned
    /\ AllAttemptsFailed
    /\ Len(endpointResult.events) = 2 * MaxAttempts
    /\ endpointResult.events[2 * MaxAttempts - 1].kind = "attempt"
    /\ endpointResult.events[2 * MaxAttempts].kind = "sleep"
    /\ endpointResult.events[2 * MaxAttempts].d = 15187500
    /\ endpointResult.err.cause = "endpoint verification failed after attempts"

====
